---------------------------- MODULE Spec2Model ----------------------------
(***************************************************************************)
(* Model of the iterated prisoner's dilemma simulator and of its sandbox   *)
(* for user-written strategy code: the Code Validator (validateCode), the  *)
(* worker pool manager (executeInWorker), the compiled-function cache      *)
(* (validateAndCacheFunction / executeDirect), the Custom strategy and the *)
(* Game engine (Game.round).                                               *)
(*                                                                         *)
(* A source text is a sequence of lexical tokens.  A token stands for the  *)
(* JavaScript text given by TokChars (its UTF-16 code units); "WS" is one  *)
(* blank.  The regular expressions of validateCode are evaluated on the    *)
(* tokens, String.prototype.trim removes the leading and trailing "WS"     *)
(* tokens, and hashCode runs over the code units in 32-bit arithmetic.     *)
(***************************************************************************)
EXTENDS Integers, Sequences, FiniteSets, TLC

(***************************************************************************)
(* Bounds of the model.                                                    *)
(***************************************************************************)
MaxCalls == 2
\* calls of a caller that awaits each call before the next (one more than
\* MAX_POOL_SIZE)
MaxSeqCalls == 6
\* executeInWorker calls of a caller that fills the pool beyond its cap, and
\* how many of them may be under way at once
MaxPoolCalls == 7
MaxPending == 2
MaxVac == 2
MaxRounds == 2
MaxCustomRounds == 3
MaxComponentRounds == 4
maxRounds == 3
MaxEngineRounds == 5
MaxHistory == 2
MaxTicks == 2
\* The clock advances in steps of TickMs milliseconds.
TickMs == 30500

(***************************************************************************)
(* Program constants.                                                      *)
(***************************************************************************)
COOPERATE == "C"
DEFECT == "D"
MAX_WORKER_AGE == 60000
MAX_POOL_SIZE == 5
MaxCodeLength == 10000
\* executeInWorkerSync: the default timeoutMs and the buffer added to it
DefaultTimeoutMs == 1000
SyncBufferMs == 200

Moves == {COOPERATE, DEFECT}

SCORING ==
  (<<"C", "C">> :> <<3, 3>>) @@ (<<"D", "C">> :> <<5, 1>>) @@
  (<<"C", "D">> :> <<1, 5>>) @@ (<<"D", "D">> :> <<1, 1>>)

(***************************************************************************)
(* Source texts.                                                           *)
(***************************************************************************)
TokChars(tok) ==
  CASE tok = "WS" -> <<32>>
  [] tok = "return" -> <<114, 101, 116, 117, 114, 110>>
  [] tok = "COOPERATE" -> <<67, 79, 79, 80, 69, 82, 65, 84, 69>>
  [] tok = "DEFECT" -> <<68, 69, 70, 69, 67, 84>>
  [] tok = ";" -> <<59>>
  [] tok = "}" -> <<125>>
  [] tok = "window" -> <<119, 105, 110, 100, 111, 119>>
  [] tok = "42" -> <<52, 50>>
  [] tok = "function f(){}" -> <<102, 117, 110, 99, 116, 105, 111, 110, 32, 102, 40, 41, 123, 125>>
  [] tok = "HEADER" -> <<47, 47, 32, 121, 111, 117, 114, 32, 115, 116, 114, 97, 116, 101, 103, 121, 32, 104, 101, 114, 101, 10, 47, 47, 32, 68, 69, 70, 69, 67, 84, 32, 116, 111, 32, 100, 101, 102, 101, 99, 116, 10, 47, 47, 32, 67, 79, 79, 80, 69, 82, 65, 84, 69, 32, 116, 111, 32, 99, 111, 111, 112, 101, 114, 97, 116, 101, 10>>
  [] tok = "LOOP_IF_NONEMPTY" -> <<105, 102, 40, 111, 112, 112, 111, 110, 101, 110, 116, 95, 104, 105, 115, 116, 111, 114, 121, 46, 108, 101, 110, 103, 116, 104, 62, 48, 41, 123, 119, 104, 105, 108, 101, 40, 116, 114, 117, 101, 41, 123, 125, 125>>
  [] tok = "THROW_IF_NONEMPTY" -> <<105, 102, 40, 111, 112, 112, 111, 110, 101, 110, 116, 95, 104, 105, 115, 116, 111, 114, 121, 46, 108, 101, 110, 103, 116, 104, 62, 48, 41, 123, 116, 104, 114, 111, 119, 32, 110, 101, 119, 32, 69, 114, 114, 111, 114, 40, 39, 98, 111, 111, 109, 39, 41, 125>>
  [] tok = "BAD_IF_NONEMPTY" -> <<111, 112, 112, 111, 110, 101, 110, 116, 95, 104, 105, 115, 116, 111, 114, 121, 46, 108, 101, 110, 103, 116, 104, 63, 52, 50, 58, 67, 79, 79, 80, 69, 82, 65, 84, 69>>
  [] tok = "LAST_OR_COOPERATE" -> <<111, 112, 112, 111, 110, 101, 110, 116, 95, 104, 105, 115, 116, 111, 114, 121, 46, 108, 101, 110, 103, 116, 104, 63, 111, 112, 112, 111, 110, 101, 110, 116, 95, 104, 105, 115, 116, 111, 114, 121, 91, 111, 112, 112, 111, 110, 101, 110, 116, 95, 104, 105, 115, 116, 111, 114, 121, 46, 108, 101, 110, 103, 116, 104, 45, 49, 93, 58, 67, 79, 79, 80, 69, 82, 65, 84, 69>>
  [] tok = "opponent_history[0]" -> <<111, 112, 112, 111, 110, 101, 110, 116, 95, 104, 105, 115, 116, 111, 114, 121, 91, 48, 93>>
  [] tok = "PUSH_DEFECT" -> <<111, 112, 112, 111, 110, 101, 110, 116, 95, 104, 105, 115, 116, 111, 114, 121, 46, 112, 117, 115, 104, 40, 68, 69, 70, 69, 67, 84, 41, 59>>
  [] tok = "LOOP" -> <<119, 104, 105, 108, 101, 40, 116, 114, 117, 101, 41, 123, 125>>
  [] tok = "THROW_EMPTY" -> <<116, 104, 114, 111, 119, 32, 110, 101, 119, 32, 69, 114, 114, 111, 114, 40, 39, 39, 41, 59>>
  [] tok = "//Aa" -> <<47, 47, 65, 97, 10>>
  [] tok = "//BB" -> <<47, 47, 66, 66, 10>>

\* "PAD" is a block comment of 10001 characters; only its length is used.
TokLen(tok) == IF tok = "PAD" THEN 10001 ELSE Len(TokChars(tok))

\* The token's text contains COOPERATE or DEFECT (/COOPERATE|DEFECT/).
TokHasLabel(tok) ==
  tok \in {"COOPERATE", "DEFECT", "HEADER", "BAD_IF_NONEMPTY",
           "LAST_OR_COOPERATE", "PUSH_DEFECT"}

\* The token's text matches /opponent_history|\.|\[|\(|===|!==|if|else|ternary/.
TokIsComplex(tok) ==
  tok \in {"opponent_history[0]", "BAD_IF_NONEMPTY", "LAST_OR_COOPERATE",
           "LOOP_IF_NONEMPTY", "THROW_IF_NONEMPTY", "PUSH_DEFECT", "LOOP",
           "THROW_EMPTY", "function f(){}"}

\* The default snippet of custom.tsx and code-editor.tsx.
DEFAULT_STRATEGY_CODE == <<"HEADER", "return", "WS", "COOPERATE", ";">>

SrcCoop == <<"return", "WS", "COOPERATE", ";">>
SrcCoopLead == <<"WS", "return", "WS", "COOPERATE", ";">>
SrcCoopTrail == <<"return", "WS", "COOPERATE", ";", "WS">>
SrcDefect == <<"return", "WS", "DEFECT", ";">>
SrcWindow == <<"window", ";", "return", "WS", "COOPERATE", ";">>
SrcNumber == <<"return", "WS", "42", ";">>
SrcFuncDecl == <<"function f(){}", "return", "WS", "COOPERATE", ";">>
SrcNoReturn == <<"COOPERATE", ";">>
SrcEmpty == <<>>
SrcBlank == <<"WS">>
SrcTooLong == <<"PAD", "return", "WS", "COOPERATE", ";">>
SrcSyntax == <<"return", "WS", "COOPERATE", ";", "}">>
SrcIndex == <<"return", "WS", "opponent_history[0]", ";">>
SrcTitForTat == <<"return", "WS", "LAST_OR_COOPERATE", ";">>
SrcLoopNE == <<"LOOP_IF_NONEMPTY", "return", "WS", "COOPERATE", ";">>
SrcThrowNE == <<"THROW_IF_NONEMPTY", "return", "WS", "DEFECT", ";">>
SrcBadNE == <<"return", "WS", "BAD_IF_NONEMPTY", ";">>
SrcPush == <<"PUSH_DEFECT", "return", "WS", "COOPERATE", ";">>
SrcLoop == <<"LOOP", "return", "WS", "COOPERATE", ";">>
SrcThrowEmpty == <<"THROW_EMPTY", "return", "WS", "COOPERATE", ";">>
SrcAa == <<"//Aa", "return", "WS", "COOPERATE", ";">>
SrcBB == <<"//BB", "return", "WS", "DEFECT", ";">>
\* hashCode gives "Aa" and "BB" the same value: the pool key of SrcAa
SrcBBCoop == <<"//BB", "return", "WS", "COOPERATE", ";">>

IsWs(tok) == tok = "WS"

RECURSIVE TrimLeft(_)
TrimLeft(s) == IF s # <<>> /\ IsWs(Head(s)) THEN TrimLeft(Tail(s)) ELSE s

RECURSIVE TrimRight(_)
TrimRight(s) ==
  IF s # <<>> /\ IsWs(s[Len(s)]) THEN TrimRight(SubSeq(s, 1, Len(s) - 1)) ELSE s

\* String.prototype.trim
Trim(s) == TrimRight(TrimLeft(s))

RECURSIVE CodeLength(_)
CodeLength(s) == IF s = <<>> THEN 0 ELSE TokLen(Head(s)) + CodeLength(Tail(s))

(***************************************************************************)
(* validateCode (code-security.ts).  The result's error is "" where the    *)
(* code leaves it undefined.                                               *)
(***************************************************************************)
\* The patterns, named by the token of the model's alphabet each matches.
DANGEROUS_PATTERNS ==
  <<"eval(", "Function(", "new Function(", "window", "document", "location",
    "fetch(", "XMLHttpRequest", "import(", "require(", "process", "global",
    "this", "arguments", ".constructor", "__proto__", "prototype", "console.log">>

PatternTest(pattern, code) == \E i \in 1..Len(code) : code[i] = pattern

DangerousMatches(code) ==
  {i \in 1..Len(DANGEROUS_PATTERNS) : PatternTest(DANGEROUS_PATTERNS[i], code)}

\* /\bfunction\s+\w+\s*\(/ and the two const forms.
FunctionDeclTest(code) == PatternTest("function f(){}", code)

\* /\breturn\s+/
ReturnStmtTest(code) ==
  \E i \in 1..(Len(code) - 1) : code[i] = "return" /\ IsWs(code[i + 1])

\* The last index of the run of blanks that starts at j.
RECURSIVE WsRunEnd(_, _)
WsRunEnd(code, j) ==
  IF j < Len(code) /\ IsWs(code[j + 1]) THEN WsRunEnd(code, j + 1) ELSE j

\* /\breturn\s+([^;]+)/ matches at i: "return", blanks, and one more character
\* that is no ";" (a second blank will do).
ReturnMatchAt(code, i) ==
  /\ i < Len(code)
  /\ code[i] = "return"
  /\ IsWs(code[i + 1])
  /\ LET e == WsRunEnd(code, i + 1)
     IN  \/ e < Len(code) /\ code[e + 1] # ";"
         \/ e > i + 1

\* The tokens from j up to the first ";".
RECURSIVE UpToSemicolon(_, _)
UpToSemicolon(code, j) ==
  IF j > Len(code) \/ code[j] = ";" THEN <<>>
  ELSE <<code[j]>> \o UpToSemicolon(code, j + 1)

\* returnMatch[1].trim() of the leftmost match.
ReturnValue(code) ==
  LET i == CHOOSE k \in 1..Len(code) :
             /\ ReturnMatchAt(code, k)
             /\ \A m \in 1..(k - 1) : ~ReturnMatchAt(code, m)
  IN  Trim(UpToSemicolon(code, WsRunEnd(code, i + 1) + 1))

\* /COOPERATE|DEFECT/.test(returnValue)
HasLabel(returnValue) ==
  \E i \in 1..Len(returnValue) : TokHasLabel(returnValue[i])

\* /opponent_history|\.|\[|\(|===|!==|if|else|ternary/.test(returnValue)
IsComplex(returnValue) ==
  \E i \in 1..Len(returnValue) : TokIsComplex(returnValue[i])

validateCode(code) ==
  IF code = <<>>
  THEN [isValid |-> FALSE, error |-> "Code must be a non-empty string"]
  ELSE IF DangerousMatches(code) # {}
  THEN [isValid |-> FALSE,
        error |-> "Security violation: Dangerous pattern detected"]
  ELSE IF FunctionDeclTest(code)
  THEN [isValid |-> FALSE, error |-> "Do not write a function declaration"]
  ELSE IF ~ReturnStmtTest(code)
  THEN [isValid |-> FALSE, error |-> "Code must contain a return statement"]
  ELSE IF /\ \E k \in 1..Len(code) : ReturnMatchAt(code, k)
          /\ ~HasLabel(ReturnValue(code))
          /\ ~IsComplex(ReturnValue(code))
  THEN [isValid |-> FALSE, error |-> "Return value must be COOPERATE or DEFECT"]
  ELSE IF CodeLength(code) > MaxCodeLength
  THEN [isValid |-> FALSE, error |-> "Code is too long (max 10,000 characters)"]
  ELSE [isValid |-> TRUE, error |-> ""]

\* `validation.error || 'Invalid code'`
ValidationMessage(validation) ==
  IF validation.error = "" THEN "Invalid code" ELSE validation.error

(***************************************************************************)
(* createCacheKey (directExecutor): code.trim() + '|' + COOPERATE + '|' +  *)
(* DEFECT.                                                                 *)
(***************************************************************************)
\* A key made of the labels alone, against which C9 is tested.
KeyOfLabels(code, coop, defect) == <<"|", coop, "|", defect>>

createCacheKey(code, coop, defect) == Trim(code) \o <<"|", coop, "|", defect>>

(***************************************************************************)
(* hashCode (strategyWorkerManager.ts): for each character,                *)
(* hash = 31 * hash + char in 32-bit two's complement.  A 32-bit value is  *)
(* kept as the pair <<high 16 bits, low 16 bits>>.  The loop is evaluated  *)
(* by halves: running it over a text ab gives h(a) * 31^|b| + h(b), so a   *)
(* segment yields its hash h and its power p = 31^length.  The base-36     *)
(* rendering of the result is one-to-one on the 32-bit value.              *)
(***************************************************************************)
\* The low 16 bits of u * v, for 16-bit u and v.
MulLo16(u, v) ==
  LET u1 == u \div 256
      u0 == u % 256
      v1 == v \div 256
      v0 == v % 256
  IN  (((u1 * v0 + u0 * v1) % 256) * 256 + u0 * v0) % 65536

\* The bits 16 and up of u * v, for 16-bit u and v.
MulHi16(u, v) ==
  LET u1 == u \div 256
      u0 == u % 256
      v1 == v \div 256
      v0 == v % 256
  IN  u1 * v1 + ((u1 * v0 + u0 * v1) * 256 + u0 * v0) \div 65536

Mul32(a, b) ==
  <<(MulHi16(a[2], b[2]) + MulLo16(a[1], b[2]) + MulLo16(a[2], b[1])) % 65536,
    MulLo16(a[2], b[2])>>

Add32(a, b) ==
  <<(a[1] + b[1] + (a[2] + b[2]) \div 65536) % 65536, (a[2] + b[2]) % 65536>>

\* The code units of a source text.
RECURSIVE CodeUnits(_)
CodeUnits(s) == IF s = <<>> THEN <<>> ELSE TokChars(Head(s)) \o CodeUnits(Tail(s))

\* The loop over str[from..to], started from hash = 0.
RECURSIVE HashSegment(_, _, _)
HashSegment(str, from, to) ==
  IF from > to THEN [h |-> <<0, 0>>, p |-> <<0, 1>>]
  ELSE IF from = to THEN [h |-> <<0, str[from]>>, p |-> <<0, 31>>]
  ELSE LET mid == (from + to) \div 2
           a == HashSegment(str, from, mid)
           b == HashSegment(str, mid + 1, to)
       IN  [h |-> Add32(Mul32(a.h, b.p), b.h), p |-> Mul32(a.p, b.p)]

hashCode(code) == HashSegment(CodeUnits(code), 1, Len(CodeUnits(code))).h

(***************************************************************************)
(* The guest function: the snippet wrapped in function(opponent_history).  *)
(* kind is "value" (with the returned value), "throw" (with the message)   *)
(* or "loop"; hist is the argument array after the call.                   *)
(***************************************************************************)
ReturnExpr(tok, hist) ==
  CASE tok = "COOPERATE" -> COOPERATE
    [] tok = "DEFECT" -> DEFECT
    [] tok = "opponent_history[0]" ->
         IF hist = <<>> THEN "undefined" ELSE hist[1]
    [] tok = "LAST_OR_COOPERATE" ->
         IF hist = <<>> THEN COOPERATE ELSE hist[Len(hist)]
    [] tok = "BAD_IF_NONEMPTY" -> IF hist = <<>> THEN COOPERATE ELSE "42"
    [] OTHER -> "undefined"

RECURSIVE GuestBody(_, _)
GuestBody(toks, hist) ==
  IF toks = <<>> THEN [kind |-> "value", value |-> "undefined", hist |-> hist]
  ELSE LET t == Head(toks)
           rest == Tail(toks)
       IN  CASE t = "return" ->
                  LET e == TrimLeft(rest)
                  IN  [kind |-> "value",
                       value |-> IF e = <<>> THEN "undefined"
                                 ELSE ReturnExpr(Head(e), hist),
                       hist |-> hist]
             [] t = "LOOP" -> [kind |-> "loop", value |-> "", hist |-> hist]
             [] t = "THROW_EMPTY" ->
                  [kind |-> "throw", value |-> "", hist |-> hist]
             [] t = "LOOP_IF_NONEMPTY" ->
                  IF hist # <<>>
                  THEN [kind |-> "loop", value |-> "", hist |-> hist]
                  ELSE GuestBody(rest, hist)
             [] t = "THROW_IF_NONEMPTY" ->
                  IF hist # <<>>
                  THEN [kind |-> "throw", value |-> "boom", hist |-> hist]
                  ELSE GuestBody(rest, hist)
             [] t = "PUSH_DEFECT" -> GuestBody(rest, Append(hist, DEFECT))
             [] OTHER -> GuestBody(rest, hist)

\* new Function(...) on the wrapped snippet: a stray "}" is a SyntaxError.
Compiles(code) == ~PatternTest("}", code)

RunGuest(code, hist) == GuestBody(code, hist)


(***************************************************************************)
(* State.                                                                  *)
(*   now            Date.now(), in milliseconds                            *)
(*   workerPool     the Map workerPool, in insertion order: [key, w]       *)
(*   entry          the WorkerPoolEntry object made for worker w           *)
(*   worker         the Web Worker w: its state and both message queues    *)
(*   call           the executeInWorker calls: the closure of each promise *)
(*   posted         every 'execute' request ever posted (history)          *)
(*   functionCache  directExecutor's functionCache: key -> compiled source *)
(*   validatedCodes directExecutor's validatedCodes                        *)
(*   vac            the validateAndCacheFunction invocations               *)
(*   localStorage   the item 'customStrategyCode'                          *)
(*   lastDirect     what the last executeDirect call of a direct caller    *)
(*                  was given and did (history)                            *)
(*   sync           the executeInWorkerSync call: its locals and how it    *)
(*                  ended                                                  *)
(*   lastSave       the last setStrategyCode call: its argument, whether   *)
(*                  it threw, whether it changed anything (history)        *)
(*   okSources      sources whose last validateAndCacheFunction succeeded  *)
(*                  and whose entry was not evicted since (history)        *)
(*   players        the two Player objects of the current Game             *)
(*   mainThread     "idle", or "stalled" once a handler never returns      *)
(*   lastRound      what the last Game.round call did (history)            *)
(*   roundsPlayed   Game.round calls on the current Game                   *)
(*   currentRound   the round counter of the page (React state)            *)
(*   component      the mode of GameComponent (a prop), the round numbers   *)
(*                  of its roundStates, in order, and isPlaying             *)
(*   lastStrategy   the last strategy call made outside a round on the     *)
(*                  first player, and whether an earlier such call was     *)
(*                  given a history with a Defect (history)                *)
(* A worker made by call c has the id c; messageId c stands for the random *)
(* id of call c, and messageId 0 for a message without one.                *)
(***************************************************************************)
VARIABLES now, workerPool, entry, worker, call, posted, functionCache,
          validatedCodes, vac, localStorage, okSources, players, mainThread,
          lastRound, roundsPlayed, lastDirect, sync, lastSave, currentRound,
          lastStrategy, component

poolVars == <<now, workerPool, entry, worker, call, posted>>
cacheVars ==
  <<functionCache, validatedCodes, vac, localStorage, okSources, lastDirect>>
gameVars ==
  <<players, mainThread, lastRound, roundsPlayed, sync, lastSave,
    currentRound, lastStrategy, component>>
vars == <<now, workerPool, entry, worker, call, posted, functionCache,
          validatedCodes, vac, localStorage, okSources, players, mainThread,
          lastRound, roundsPlayed, lastDirect, sync, lastSave, currentRound,
          lastStrategy, component>>

CallIds == 1..MaxPoolCalls
VacIds == 1..MaxVac

NoWorker == [st |-> "none", inbox |-> <<>>, outbox |-> <<>>]
TerminatedWorker == [st |-> "terminated", inbox |-> <<>>, outbox |-> <<>>]
NoEntry == [isReady |-> FALSE, isBusy |-> FALSE, lastUsed |-> 0]
NoCall ==
  [st |-> "free", code |-> <<>>, hist |-> <<>>, w |-> 0, isNew |-> FALSE,
   codeKey |-> <<0, 0>>, timer |-> FALSE, onMessage |-> FALSE,
   onReady |-> FALSE, outcome |-> "", value |-> "", owner |-> 0,
   posts |-> 0]
NoVac ==
  [st |-> "free", code |-> <<>>, key |-> <<>>, call |-> 0, error |-> "",
   afterSuccess |-> FALSE, cacheBefore |-> <<>>, cacheAfter |-> <<>>]

\* The part of the state the sandbox handlers read and write, as one record.
Cur ==
  [now |-> now, workerPool |-> workerPool, entry |-> entry, worker |-> worker,
   call |-> call, posted |-> posted, functionCache |-> functionCache,
   validatedCodes |-> validatedCodes, vac |-> vac,
   localStorage |-> localStorage, okSources |-> okSources,
   lastDirect |-> lastDirect]

Assign(s) ==
  /\ now' = s.now
  /\ workerPool' = s.workerPool
  /\ entry' = s.entry
  /\ worker' = s.worker
  /\ call' = s.call
  /\ posted' = s.posted
  /\ functionCache' = s.functionCache
  /\ validatedCodes' = s.validatedCodes
  /\ vac' = s.vac
  /\ localStorage' = s.localStorage
  /\ lastDirect' = s.lastDirect
  /\ okSources' = s.okSources

(***************************************************************************)
(* The Map workerPool.                                                     *)
(***************************************************************************)
PoolIndex(pool, key) == {i \in 1..Len(pool) : pool[i].key = key}

\* workerPool.get(key): the worker of the entry, 0 when there is none.
PoolGet(pool, key) ==
  IF PoolIndex(pool, key) = {} THEN 0
  ELSE pool[CHOOSE i \in PoolIndex(pool, key) : TRUE].w

\* workerPool.set(key, entry): an existing key keeps its place.
PoolSet(pool, key, w) ==
  IF PoolIndex(pool, key) = {} THEN Append(pool, [key |-> key, w |-> w])
  ELSE [i \in 1..Len(pool) |->
          IF pool[i].key = key THEN [key |-> key, w |-> w] ELSE pool[i]]

RECURSIVE SeqFilter(_, _)
SeqFilter(s, keep) ==
  IF s = <<>> THEN <<>>
  ELSE IF Head(s) \in keep THEN <<Head(s)>> \o SeqFilter(Tail(s), keep)
  ELSE SeqFilter(Tail(s), keep)

Range(s) == {s[i] : i \in 1..Len(s)}

\* workerPool.delete(key)
PoolDelete(pool, key) == SeqFilter(pool, {e \in Range(pool) : e.key # key})

PoolWorkers(pool) == {pool[i].w : i \in 1..Len(pool)}

(***************************************************************************)
(* cleanupWorkerPool: the pool after it, and the workers it terminated.    *)
(***************************************************************************)
\* A cleanup that picks the handles to remove under the cap among all
\* handles, busy or not, against which C32 is tested.
cleanupAnyHandle(pool, ent, t) ==
  LET expired == {e \in Range(pool) :
                    ~ent[e.w].isBusy /\ t - ent[e.w].lastUsed > MAX_WORKER_AGE}
      pool1 == SeqFilter(pool, Range(pool) \ expired)
      toRemove == IF Len(pool1) > MAX_POOL_SIZE
                  THEN {pool1[i] : i \in 1..(Len(pool1) - MAX_POOL_SIZE)}
                  ELSE {}
  IN  [pool |-> SeqFilter(pool1, Range(pool1) \ toRemove),
       removed |-> {e.w : e \in expired \cup toRemove}]

cleanupWorkerPool(pool, ent, t) ==
  LET expired == {e \in Range(pool) :
                    ~ent[e.w].isBusy /\ t - ent[e.w].lastUsed > MAX_WORKER_AGE}
      pool1 == SeqFilter(pool, Range(pool) \ expired)
      idle == {i \in 1..Len(pool1) : ~ent[pool1[i].w].isBusy}
      \* the place of pool1[i] after the (stable) sort by lastUsed
      Rank(i) == Cardinality({j \in idle :
                    \/ ent[pool1[j].w].lastUsed < ent[pool1[i].w].lastUsed
                    \/ /\ ent[pool1[j].w].lastUsed = ent[pool1[i].w].lastUsed
                       /\ j < i})
      toRemove == IF Len(pool1) > MAX_POOL_SIZE
                  THEN {pool1[i] : i \in {k \in idle :
                                    Rank(k) < Len(pool1) - MAX_POOL_SIZE}}
                  ELSE {}
  IN  [pool |-> SeqFilter(pool1, Range(pool1) \ toRemove),
       removed |-> {e.w : e \in expired \cup toRemove}]


(***************************************************************************)
(* The worker script (createStrategyWorker): its answer to one 'execute'   *)
(* request.  type "none" is no answer: the guest code never returns.       *)
(***************************************************************************)
Message(type, result, error, messageId) ==
  [type |-> type, result |-> result, error |-> error, messageId |-> messageId]

ReadyMessage == Message("ready", "", "", 0)

\* A worker that posts nothing when the guest code throws, against which
\* C30 is tested.
WorkerSilentOnThrow(req) ==
  IF Trim(req.code) = <<>> \/ ~Compiles(Trim(req.code))
  THEN Message("error", "", "Code execution failed", req.messageId)
  ELSE LET out == RunGuest(Trim(req.code), req.hist)
       IN  IF out.kind = "loop" \/ out.kind = "throw"
           THEN Message("none", "", "", req.messageId)
           ELSE IF out.value # COOPERATE /\ out.value # DEFECT
           THEN Message("error", "", "Invalid return value", req.messageId)
           ELSE Message("result", out.value, "", req.messageId)

\* A worker that passes on whatever the guest code returns, against which
\* C31 is tested.
WorkerUnchecked(req) ==
  IF Trim(req.code) = <<>> \/ ~Compiles(Trim(req.code))
  THEN Message("error", "", "Code execution failed", req.messageId)
  ELSE LET out == RunGuest(Trim(req.code), req.hist)
       IN  IF out.kind = "loop" THEN Message("none", "", "", req.messageId)
           ELSE IF out.kind = "throw"
           THEN Message("error", "", out.value, req.messageId)
           ELSE Message("result", out.value, "", req.messageId)

WorkerResponse(req) ==
  IF req.code = <<>>
  THEN Message("error", "", "Code must be a non-empty string", req.messageId)
  ELSE IF Trim(req.code) = <<>>
  THEN Message("error", "", "Code cannot be empty or only whitespace",
               req.messageId)
  ELSE IF ~Compiles(Trim(req.code))
  THEN Message("error", "", "Code execution failed", req.messageId)
  ELSE LET out == RunGuest(Trim(req.code), req.hist)
       IN  IF out.kind = "loop" THEN Message("none", "", "", req.messageId)
           ELSE IF out.kind = "throw"
           THEN Message("error", "", out.value, req.messageId)
           ELSE IF out.value # COOPERATE /\ out.value # DEFECT
           THEN Message("error", "", "Invalid return value", req.messageId)
           ELSE Message("result", out.value, "", req.messageId)

(***************************************************************************)
(* executeInWorker (strategyWorkerManager.ts), as functions on the state   *)
(* record s.                                                               *)
(***************************************************************************)
NextCallId(s) == Cardinality({c \in CallIds : s.call[c].st # "free"}) + 1
NextVacId(s) == Cardinality({v \in VacIds : s.vac[v].st # "free"}) + 1

\* worker.postMessage({type: 'execute', ...}) for call c
PostExecute(s, w, c) ==
  LET req == [code |-> s.call[c].code, hist |-> s.call[c].hist, messageId |-> c]
  IN  [s EXCEPT !.worker[w].inbox = Append(@, req),
                !.posted = @ \cup {[w |-> w, code |-> req.code, messageId |-> c]},
                !.call[c].posts = @ + 1]

\* A lookup that takes whatever handle is pooled under the key, busy or not,
\* against which C12 and C16 are tested.
ReuseAnyPooled(pool, ent, codeKey) == PoolGet(pool, codeKey)

\* The lookup of line 271: the pooled worker to reuse, 0 to create one.
ReusableWorker(pool, ent, codeKey) ==
  LET w == PoolGet(pool, codeKey)
  IN  IF w # 0 /\ ~ent[w].isBusy /\ ent[w].isReady THEN w ELSE 0

\* The synchronous part of executeInWorker: call c of `owner` (a
\* validateAndCacheFunction invocation, 0 for a direct caller, -1 for
\* testCompilation).
ExecuteInWorkerF(s, c, code, hist, owner) ==
  LET cl == cleanupWorkerPool(s.workerPool, s.entry, s.now)
      codeKey == hashCode(Trim(code))
      w0 == ReusableWorker(cl.pool, s.entry, codeKey)
      isNewWorker == w0 = 0
      w == IF isNewWorker THEN c ELSE w0
      s1 == [s EXCEPT
               !.workerPool = IF isNewWorker THEN PoolSet(cl.pool, codeKey, c)
                              ELSE cl.pool,
               !.worker = [x \in CallIds |->
                             IF x \in cl.removed THEN TerminatedWorker
                             ELSE IF x = w /\ isNewWorker
                             THEN [st |-> "running", inbox |-> <<>>,
                                   outbox |-> <<ReadyMessage>>]
                             ELSE s.worker[x]],
               !.entry[w] = [isReady |-> IF isNewWorker THEN FALSE ELSE @.isReady,
                             isBusy |-> TRUE, lastUsed |-> s.now],
               !.call[c] = [st |-> "pending", code |-> code, hist |-> hist,
                            w |-> w, isNew |-> isNewWorker, codeKey |-> codeKey,
                            timer |-> TRUE, onMessage |-> TRUE,
                            onReady |-> isNewWorker, outcome |-> "",
                            value |-> "", owner |-> owner, posts |-> 0]]
  IN  IF isNewWorker THEN s1 ELSE PostExecute(s1, w, c)

\* worker.terminate()
Terminate(s, w) == [s EXCEPT !.worker[w] = TerminatedWorker]

(***************************************************************************)
(* validateAndCacheFunction (directExecutor).                              *)
(***************************************************************************)
CacheSet(fc, key, fn) ==
  [k \in DOMAIN fc \cup {key} |-> IF k = key THEN fn ELSE fc[k]]

\* An executeDirect that leaves a failed function in the cache, against
\* which C18 is tested.
CacheKeep(fc, key) == fc

CacheDelete(fc, key) == [k \in DOMAIN fc \ {key} |-> fc[k]]

\* A lookup that never hits, against which C8 is tested.
CacheNeverHit(s, cacheKey) == FALSE

\* The test of line 118.
CacheHit(s, cacheKey) ==
  cacheKey \in s.validatedCodes /\ cacheKey \in DOMAIN s.functionCache

\* A continuation that caches the source whether or not the round-trip
\* succeeded, against which C17 is tested.
VacCacheAnyway(s, v, ok, message) ==
  [s EXCEPT !.functionCache =
              CacheSet(@, createCacheKey(Trim(s.vac[v].code), COOPERATE, DEFECT),
                       Trim(s.vac[v].code)),
            !.validatedCodes =
              @ \cup {createCacheKey(Trim(s.vac[v].code), COOPERATE, DEFECT)},
            !.vac[v].st = IF ok THEN "resolved" ELSE "rejected",
            !.vac[v].error = IF ok THEN "" ELSE message]

\* The part after `await testCompilationInWorker`, run when call c of
\* invocation v has settled (ok: the promise was resolved).
VacResume(s, v, ok, message) ==
  LET trimmedCode == Trim(s.vac[v].code)
      cacheKey == createCacheKey(trimmedCode, COOPERATE, DEFECT)
  IN  IF ~ok
      THEN [s EXCEPT !.vac[v].st = "rejected", !.vac[v].error = message,
                     !.vac[v].cacheAfter = s.functionCache]
      ELSE IF ~Compiles(trimmedCode)
      THEN [s EXCEPT !.vac[v].st = "rejected",
                     !.vac[v].error = "SyntaxError",
                     !.vac[v].cacheAfter = s.functionCache]
      ELSE [s EXCEPT !.functionCache = CacheSet(@, cacheKey, trimmedCode),
                     !.validatedCodes = @ \cup {cacheKey},
                     !.vac[v].st = "resolved",
                     !.vac[v].cacheAfter =
                        CacheSet(s.functionCache, cacheKey, trimmedCode),
                     !.okSources = @ \cup {s.vac[v].code}]

\* A validateAndCacheFunction without the validator, against which C20 is
\* tested.
VacUnchecked(s, v, code) ==
  [ExecuteInWorkerF(s, NextCallId(s), Trim(code), <<>>, v)
     EXCEPT !.vac[v] =
       [NoVac EXCEPT !.code = code,
                     !.key = createCacheKey(Trim(code), COOPERATE, DEFECT),
                     !.st = "awaiting", !.call = NextCallId(s)]]

\* The part up to the await: invocation v on `code`.
ValidateAndCacheF(s, v, code) ==
  LET validation == validateCode(code)
      trimmedCode == Trim(code)
      cacheKey == createCacheKey(trimmedCode, COOPERATE, DEFECT)
      base == [NoVac EXCEPT !.code = code, !.key = cacheKey,
                            !.afterSuccess = code \in s.okSources,
                            !.cacheBefore = s.functionCache,
                            !.cacheAfter = s.functionCache]
  IN  IF ~validation.isValid
      THEN [s EXCEPT !.vac[v] = [base EXCEPT !.st = "rejected",
                                   !.error = ValidationMessage(validation)]]
      ELSE IF CacheHit(s, cacheKey)
      THEN [s EXCEPT !.vac[v] = [base EXCEPT !.st = "resolved"],
                     !.okSources = @ \cup {code}]
      ELSE [ExecuteInWorkerF(s, NextCallId(s), trimmedCode, <<>>, v)
              EXCEPT !.vac[v] = [base EXCEPT !.st = "awaiting",
                                   !.call = NextCallId(s)]]

\* The promise of call c settles (once); the continuation of its owner runs
\* in the same task.
SettlePromise(s, c, ok, outcome, value) ==
  IF s.call[c].st # "pending" THEN s
  ELSE LET s1 == [s EXCEPT !.call[c].st = IF ok THEN "resolved" ELSE "rejected",
                           !.call[c].outcome = outcome,
                           !.call[c].value = value]
       IN  IF s.call[c].owner \notin VacIds THEN s1
           ELSE VacResume(s1, s.call[c].owner, ok, value)

(***************************************************************************)
(* The handlers executeInWorker registers.                                 *)
(***************************************************************************)
\* A timeout callback that only rejects, against which C3 is tested.
TimeoutOnlyRejects(s, c) ==
  SettlePromise([s EXCEPT !.call[c].timer = FALSE], c, FALSE, "timeout",
                "Strategy execution timed out")

\* The setTimeout callback of call c (lines 290-298).
TimeoutF(s, c) ==
  LET w == s.call[c].w
      s1 == IF s.call[c].isNew
            THEN [Terminate(s, w) EXCEPT
                    !.workerPool = PoolDelete(@, s.call[c].codeKey)]
            ELSE [s EXCEPT !.entry[w].isBusy = FALSE]
  IN  SettlePromise([s1 EXCEPT !.call[c].timer = FALSE], c, FALSE, "timeout",
                    "Strategy execution timed out")

\* A handleMessage without the id test of lines 305-307, against which C29
\* is tested.
HandleMessageAnyId(s, c, msg) ==
  LET w == s.call[c].w
  IN  IF msg.type = "result" /\ msg.result # ""
      THEN SettlePromise([s EXCEPT !.call[c].timer = FALSE,
                                   !.call[c].onMessage = FALSE,
                                   !.entry[w].isBusy = FALSE,
                                   !.entry[w].lastUsed = s.now],
                         c, TRUE, "result", msg.result)
      ELSE IF msg.type = "error" /\ msg.error # ""
      THEN SettlePromise([s EXCEPT !.call[c].timer = FALSE,
                                   !.call[c].onMessage = FALSE,
                                   !.entry[w].isBusy = FALSE],
                         c, FALSE, "error", msg.error)
      ELSE IF msg.type = "ready"
      THEN [s EXCEPT !.entry[w].isReady = TRUE]
      ELSE s

\* handleMessage of call c on one message (lines 301-339).
HandleMessageF(s, c, msg) ==
  LET w == s.call[c].w
  IN  IF msg.messageId # c THEN s
      ELSE IF msg.type = "result" /\ msg.result # ""
      THEN SettlePromise([s EXCEPT !.call[c].timer = FALSE,
                                   !.call[c].onMessage = FALSE,
                                   !.entry[w].isBusy = FALSE,
                                   !.entry[w].lastUsed = s.now],
                         c, TRUE, "result", msg.result)
      ELSE IF msg.type = "error" /\ msg.error # ""
      THEN SettlePromise([s EXCEPT !.call[c].timer = FALSE,
                                   !.call[c].onMessage = FALSE,
                                   !.entry[w].isBusy = FALSE],
                         c, FALSE, "error", msg.error)
      ELSE IF msg.type = "ready"
      THEN [s EXCEPT !.entry[w].isReady = TRUE]
      ELSE s

\* A readyHandler that answers every message with a request and stays
\* registered, against which C28 is tested.
ReadyHandlerOnAnyMessage(s, c, msg) == PostExecute(s, s.call[c].w, c)

\* readyHandler of call c on one message (lines 359-372).
ReadyHandlerF(s, c, msg) ==
  IF msg.type = "ready"
  THEN PostExecute([s EXCEPT !.call[c].onReady = FALSE], s.call[c].w, c)
  ELSE s

\* An error listener that only rejects the call, against which C14 is tested.
HandleErrorOnlyRejects(s, c) ==
  SettlePromise([s EXCEPT !.call[c].timer = FALSE,
                          !.call[c].onMessage = FALSE,
                          !.entry[s.call[c].w].isBusy = FALSE],
                c, FALSE, "workerError", "Worker error")

\* handleError of call c (lines 342-355).
HandleErrorF(s, c) ==
  LET w == s.call[c].w
      s1 == [Terminate(s, w) EXCEPT
               !.call[c].timer = FALSE,
               !.call[c].onMessage = FALSE,
               !.entry[w].isBusy = FALSE,
               !.workerPool = PoolDelete(@, s.call[c].codeKey)]
  IN  SettlePromise(s1, c, FALSE, "workerError", "Worker error")

\* One event dispatched to the listeners of worker w, in the order in which
\* they were added (calls in the order of their ids; within a call the
\* readyHandler before handleMessage).
RECURSIVE DispatchMessage(_, _, _, _)
DispatchMessage(s, w, msg, c) ==
  IF c > MaxPoolCalls THEN s
  ELSE LET s1 == IF s.call[c].w = w /\ s.call[c].onReady
                 THEN ReadyHandlerF(s, c, msg) ELSE s
           s2 == IF s.call[c].w = w /\ s.call[c].onMessage
                 THEN HandleMessageF(s1, c, msg) ELSE s1
       IN  DispatchMessage(s2, w, msg, c + 1)

RECURSIVE DispatchError(_, _, _)
DispatchError(s, w, c) ==
  IF c > MaxPoolCalls THEN s
  ELSE DispatchError(IF s.call[c].w = w /\ s.call[c].onMessage
                     THEN HandleErrorF(s, c) ELSE s, w, c + 1)


(***************************************************************************)
(* executeDirect (directExecutor) and the strategies.  A strategy call     *)
(* yields                                                                  *)
(*   ret    the value returned ("" when nothing was returned)              *)
(*   end    "return", "throw", or "never" (the call does not come back)    *)
(*   via    which path of Custom.strategy produced ret                     *)
(*   self   the player object after the call                               *)
(*   hist   the array passed as opponent_history, after the call           *)
(*   fc     functionCache after the call                                   *)
(***************************************************************************)
\* An executeDirect that compiles an uncached source on the fly, against
\* which C19 is tested.
executeCompiling(code, hist, fc) ==
  [ret |-> COOPERATE, end |-> "return", via |-> "cached", hist |-> hist,
   fc |-> CacheSet(fc, createCacheKey(Trim(code), COOPERATE, DEFECT), Trim(code))]

executeDirect(code, hist, fc) ==
  LET trimmedCode == Trim(code)
      cacheKey == createCacheKey(trimmedCode, COOPERATE, DEFECT)
  IN  IF trimmedCode = <<>>
      THEN [ret |-> "", end |-> "throw", via |-> "empty", hist |-> hist, fc |-> fc]
      ELSE IF cacheKey \notin DOMAIN fc
      THEN [ret |-> "", end |-> "throw", via |-> "uncached", hist |-> hist,
            fc |-> fc]
      ELSE LET out == RunGuest(fc[cacheKey], hist)
           IN  IF out.kind = "loop"
               THEN [ret |-> "", end |-> "never", via |-> "loop",
                     hist |-> out.hist, fc |-> fc]
               ELSE IF out.kind = "throw"
               THEN [ret |-> "", end |-> "throw", via |-> "guestThrow",
                     hist |-> out.hist, fc |-> CacheDelete(fc, cacheKey)]
               ELSE IF out.value # COOPERATE /\ out.value # DEFECT
               THEN [ret |-> "", end |-> "throw", via |-> "invalidReturn",
                     hist |-> out.hist, fc |-> CacheDelete(fc, cacheKey)]
               ELSE [ret |-> out.value, end |-> "return", via |-> "cached",
                     hist |-> out.hist, fc |-> fc]

\* A catch block that rethrows, against which C2 is tested.
CustomRethrow(r) == r

\* What the catch block of Custom.strategy makes of a thrown executeDirect.
CustomCatch(r) == [r EXCEPT !.ret = COOPERATE, !.end = "return"]

\* Custom.strategy (custom.tsx)
CustomStrategy(code, hist, fc) ==
  LET validation == validateCode(code)
  IN  IF ~validation.isValid
      THEN [ret |-> COOPERATE, end |-> "return", via |-> "validation",
            hist |-> hist, fc |-> fc]
      ELSE LET r == executeDirect(code, hist, fc)
           IN  IF r.end = "throw" THEN CustomCatch(r) ELSE r

Kinds ==
  {"AlwaysCooperate", "AlwaysDefect", "TitForTat", "Joss", "Resentful",
   "Random", "SelfPlay", "Custom"}

\* player1Strategies and player2Strategies of the game page (mode "game")
Strategies(player) ==
  IF player = 1 THEN Kinds ELSE Kinds \ {"SelfPlay", "Custom"}

\* new <Strategy>("Player n", 0, [])
NewPlayer(kind, code) ==
  [kind |-> kind, score |-> 0, history |-> <<>>, opponent_defected |-> FALSE,
   userChoice |-> COOPERATE, strategyCode |-> code]

\* The values Math.random() is used for: Joss takes Math.floor(r * 10),
\* Random takes Math.floor(r * 2).
RandomDraws(kind) ==
  IF kind = "Joss" THEN 0..9 ELSE IF kind = "Random" THEN 0..1 ELSE {0}

\* A TitForTat that repeats the opponent's first move, against which C26 is
\* tested.
TitForFirst(hist) ==
  IF Len(hist) = 0 THEN COOPERATE ELSE hist[1]

\* A TitForTat that opens with Defect, against which C27 is tested.
SuspiciousTitForTat(hist) ==
  IF Len(hist) = 0 THEN DEFECT ELSE hist[Len(hist)]

TitForTatStrategy(hist) ==
  IF Len(hist) = 0 THEN COOPERATE ELSE hist[Len(hist)]

\* A Joss that reads past the end of the opponent history, against which
\* C37 is tested.
JossPastTheEnd(hist, r) ==
  IF Len(hist) = 0 THEN COOPERATE
  ELSE IF r = 0 THEN DEFECT
  ELSE "undefined"

JossStrategy(hist, r) ==
  IF Len(hist) = 0 THEN COOPERATE
  ELSE IF r = 0 THEN DEFECT
  ELSE hist[Len(hist)]

\* Resentful.strategy: the flag after the call, and the move.
ResentfulFlag(pl, hist) ==
  IF Len(hist) # 0 /\ (\E i \in 1..Len(hist) : hist[i] = DEFECT) THEN TRUE
  ELSE pl.opponent_defected

ResentfulStrategy(pl, hist) ==
  IF Len(hist) = 0 THEN COOPERATE
  ELSE IF ResentfulFlag(pl, hist) THEN DEFECT
  ELSE COOPERATE

RandomStrategy(r) == <<COOPERATE, DEFECT>>[r + 1]

\* player.strategy(opponent_history)
Strategy(pl, hist, fc, r) ==
  LET plain(m) == [ret |-> m, end |-> "return", via |-> "builtin", self |-> pl,
                   hist |-> hist, fc |-> fc]
  IN  CASE pl.kind = "AlwaysCooperate" -> plain(COOPERATE)
        [] pl.kind = "AlwaysDefect" -> plain(DEFECT)
        [] pl.kind = "TitForTat" -> plain(TitForTatStrategy(hist))
        [] pl.kind = "Joss" -> plain(JossStrategy(hist, r))
        [] pl.kind = "Resentful" ->
             [plain(ResentfulStrategy(pl, hist)) EXCEPT
                !.self.opponent_defected = ResentfulFlag(pl, hist)]
        [] pl.kind = "Random" -> plain(RandomStrategy(r))
        [] pl.kind = "SelfPlay" -> plain(pl.userChoice)
        [] pl.kind = "Custom" ->
             LET r0 == CustomStrategy(pl.strategyCode, hist, fc)
             IN  [ret |-> r0.ret, end |-> r0.end, via |-> r0.via, self |-> pl,
                  hist |-> r0.hist, fc |-> r0.fc]

\* A round that hands each strategy its own history, against which C6 is
\* tested.
SamePlayer(p) == p

\* The player whose history players[p].strategy is given.
OpponentOf(p) == 3 - p

\* An addScore that counts the payoff twice, against which C4 is tested.
addScoreTwice(pl, score) == [pl EXCEPT !.score = @ + 2 * score]

\* An addHistory that records only the first round, against which C24 is
\* tested.
addHistoryOnce(pl, move) ==
  [pl EXCEPT !.history = IF @ = <<>> THEN <<move>> ELSE @]

\* Player.addScore, Player.addHistory
addScore(pl, score) == [pl EXCEPT !.score = @ + score]
addHistory(pl, move) == [pl EXCEPT !.history = Append(@, move)]

NoSync == [st |-> "none", call |-> 0, startTime |-> 0, result |-> "", error |-> ""]

NoStrategy == [st |-> "none", hist |-> <<>>, ret |-> "", seenBefore |-> FALSE]

NoSave == [called |-> FALSE, code |-> <<>>, threw |-> FALSE, changed |-> FALSE]

NoDirect ==
  [code |-> <<>>, hist |-> <<>>, before |-> <<>>, after |-> <<>>,
   end |-> "none", ret |-> ""]

NoRound ==
  [status |-> "none", round_number |-> 0, repeated |-> FALSE,
   before |-> <<>>, given |-> <<>>, computed |-> <<>>,
   choice |-> <<>>, scores |-> <<>>, via |-> <<>>]

\* The scores and histories of the two players.
Standing(ps) ==
  <<[score |-> ps[1].score, history |-> ps[1].history],
    [score |-> ps[2].score, history |-> ps[2].history]>>

\* Removing the entry of a key ends the success of its sources.
StillCompiled(ok, fc) ==
  {src \in ok : createCacheKey(src, COOPERATE, DEFECT) \in DOMAIN fc}

(***************************************************************************)
(* Game.round (game.tsx), after setSelfPlayChoiceIfNeeded(userChoice) of   *)
(* the page.  r1 and r2 are the random draws of the two strategies.        *)
(***************************************************************************)
GameRound(round_number, userChoice, r1, r2) ==
  \* setSelfPlayChoiceIfNeeded, then the two strategy calls in order; each
  \* intermediate value is bound once
  \E p0 \in {IF players[1].kind = "SelfPlay"
              THEN [players EXCEPT ![1].userChoice =
                       IF userChoice = "" THEN COOPERATE ELSE userChoice]
              ELSE players} :
  \E c1 \in {Strategy(p0[1], p0[OpponentOf(1)].history, functionCache, r1)} :
  \E p1 \in {[[p0 EXCEPT ![1] = c1.self]
                EXCEPT ![OpponentOf(1)].history = c1.hist]} :
  \E c2 \in {Strategy(p1[2], p1[OpponentOf(2)].history, c1.fc, r2)} :
  \E p2 \in {[[p1 EXCEPT ![2] = c2.self]
                EXCEPT ![OpponentOf(2)].history = c2.hist]} :
  LET o1 == OpponentOf(1)
      o2 == OpponentOf(2)
      record == [status |-> "returned",
                 round_number |-> round_number,
                 repeated |-> /\ lastRound.status # "none"
                              /\ lastRound.round_number = round_number,
                 before |-> Standing(players),
                 given |-> <<p0[o1].history, p1[o2].history>>,
                 computed |-> Standing(p2),
                 choice |-> <<c1.ret, c2.ret>>,
                 scores |-> <<>>,
                 via |-> <<c1.via, c2.via>>]
  IN  /\ mainThread = "idle"
      /\ roundsPlayed' = roundsPlayed + 1
      /\ IF c1.end = "never"
         THEN /\ players' = p1
              /\ functionCache' = c1.fc
              /\ mainThread' = "stalled"
              /\ lastRound' = [record EXCEPT !.status = "stalled",
                                 !.given = <<p0[o1].history>>,
                                 !.computed = Standing(p1),
                                 !.choice = <<>>, !.via = <<c1.via>>]
         ELSE IF c1.end = "throw"
         THEN /\ players' = p1
              /\ functionCache' = c1.fc
              /\ mainThread' = mainThread
              /\ lastRound' = [record EXCEPT !.status = "threw",
                                 !.given = <<p0[o1].history>>,
                                 !.computed = Standing(p1),
                                 !.choice = <<>>, !.via = <<c1.via>>]
         ELSE IF c2.end = "never"
         THEN /\ players' = p2
              /\ functionCache' = c2.fc
              /\ mainThread' = "stalled"
              /\ lastRound' = [record EXCEPT !.status = "stalled",
                                 !.choice = <<c1.ret>>]
         ELSE IF c2.end = "throw" \/ <<c1.ret, c2.ret>> \notin DOMAIN SCORING
         THEN /\ players' = p2
              /\ functionCache' = c2.fc
              /\ mainThread' = mainThread
              /\ lastRound' = [record EXCEPT !.status = "threw"]
         ELSE LET scores == SCORING[<<c1.ret, c2.ret>>]
              IN  /\ players' =
                       <<addHistory(addScore(p2[1], scores[1]), c1.ret),
                         addHistory(addScore(p2[2], scores[2]), c2.ret)>>
                  /\ functionCache' = c2.fc
                  /\ mainThread' = mainThread
                  /\ lastRound' = [record EXCEPT !.scores = scores]
      /\ okSources' = StillCompiled(okSources, functionCache')
      /\ UNCHANGED <<poolVars, validatedCodes, vac, localStorage, lastDirect,
                     sync, lastSave, lastStrategy>>


(***************************************************************************)
(* Inputs.                                                                 *)
(***************************************************************************)
\* executeInWorker called directly
PoolInputs ==
  {[code |-> SrcCoop, hist |-> <<>>], [code |-> SrcThrowNE, hist |-> <<DEFECT>>],
   [code |-> SrcLoop, hist |-> <<>>], [code |-> SrcAa, hist |-> <<>>],
   [code |-> SrcBBCoop, hist |-> <<>>]}

\* executeInWorker called directly with guest code of every outcome: a
\* label returned, another value returned, an exception with and without a
\* message
WorkerInputs ==
  {[code |-> SrcCoop, hist |-> <<>>], [code |-> SrcDefect, hist |-> <<>>],
   [code |-> SrcTitForTat, hist |-> <<DEFECT>>],
   [code |-> SrcBadNE, hist |-> <<COOPERATE>>],
   [code |-> SrcIndex, hist |-> <<>>],
   [code |-> SrcThrowNE, hist |-> <<DEFECT>>],
   [code |-> SrcThrowEmpty, hist |-> <<>>]}

\* validateAndCacheFunction, testCompilation and executeDirect called directly
CacheSources == {SrcCoop, SrcCoopLead, SrcThrowNE, SrcBadNE, SrcWindow}
TestSources == {SrcCoop, SrcWindow}
DirectInputs ==
  {[code |-> SrcCoop, hist |-> <<>>],
   [code |-> SrcThrowNE, hist |-> <<COOPERATE>>],
   [code |-> SrcBadNE, hist |-> <<COOPERATE>>]}

\* executeInWorker called by a caller that awaits each call: snippets with
\* six different pool keys
SeqSources == {SrcCoop, SrcDefect, SrcIndex, SrcTitForTat, SrcPush, SrcAa}

\* executeInWorker called with snippets of different pool keys, in this order
PoolSources ==
  <<SrcCoop, SrcDefect, SrcIndex, SrcTitForTat, SrcPush, SrcAa, SrcBB,
    DEFAULT_STRATEGY_CODE>>

\* what the editor hands to handleSaveCustomCode
SavedSources == {SrcLoopNE, SrcThrowNE, SrcBadNE, SrcPush, SrcWindow}

\* what a browser may hold in localStorage when the page loads; <<>> is no
\* item (getItem gives null)
StoredSources == {<<>>, SrcWindow}

UserChoices == {"", COOPERATE, DEFECT}

(***************************************************************************)
(* Initial state: the module scopes as loaded, and the Game of the first   *)
(* render (AlwaysCooperate against AlwaysCooperate).                       *)
(***************************************************************************)
InitIn(stored, modes) ==
  /\ now = 0
  /\ workerPool = <<>>
  /\ entry = [w \in CallIds |-> NoEntry]
  /\ worker = [w \in CallIds |-> NoWorker]
  /\ call = [c \in CallIds |-> NoCall]
  /\ posted = {}
  /\ functionCache = <<>>
  /\ validatedCodes = {}
  /\ vac = [v \in VacIds |-> NoVac]
  /\ localStorage \in stored
  /\ okSources = {}
  /\ players = <<NewPlayer("AlwaysCooperate", <<>>),
                 NewPlayer("AlwaysCooperate", <<>>)>>
  /\ mainThread = "idle"
  /\ lastRound = NoRound
  /\ roundsPlayed = 0
  /\ lastDirect = NoDirect
  /\ sync = NoSync
  /\ lastSave = NoSave
  /\ currentRound = 0
  /\ lastStrategy = NoStrategy
  /\ component \in [mode : modes, roundStates : {<<0>>}, isPlaying : {FALSE}]

\* The component in its default mode.
InitWith(stored) == InitIn(stored, {"game"})

\* The library used on its own: nothing stored.
Init == InitWith({<<>>})

\* The page loaded in a browser.
InitPage == InitWith(StoredSources)

(***************************************************************************)
(* Calls of the exported functions.                                        *)
(***************************************************************************)
ApiExecuteInWorker(code, hist) ==
  /\ mainThread = "idle"
  /\ NextCallId(Cur) <= MaxCalls
  /\ Assign(ExecuteInWorkerF(Cur, NextCallId(Cur), code, hist, 0))
  /\ UNCHANGED gameVars

\* executeInWorker called after the promise of every earlier call has settled.
ApiExecuteAwaited(code) ==
  /\ mainThread = "idle"
  /\ \A c \in CallIds : call[c].st # "pending"
  /\ NextCallId(Cur) <= MaxSeqCalls
  /\ Assign(ExecuteInWorkerF(Cur, NextCallId(Cur), code, <<>>, 0))
  /\ UNCHANGED gameVars

\* executeInWorker called with one source after the other, a call starting
\* while at most MaxPending - 1 earlier ones are under way.
ApiExecuteNext ==
  /\ mainThread = "idle"
  /\ NextCallId(Cur) <= MaxPoolCalls
  /\ NextCallId(Cur) <= Len(PoolSources)
  /\ Cardinality({c \in CallIds : call[c].st = "pending"}) < MaxPending
  /\ Assign(ExecuteInWorkerF(Cur, NextCallId(Cur),
                             PoolSources[NextCallId(Cur)], <<>>, 0))
  /\ UNCHANGED gameVars

\* testCompilation (code-security.ts): testCompilationInWorker(code, ...),
\* which is executeInWorker(code, COOPERATE, DEFECT, [], 1000).
ApiTestCompilation(code) ==
  /\ mainThread = "idle"
  /\ NextCallId(Cur) <= MaxCalls
  /\ Assign(ExecuteInWorkerF(Cur, NextCallId(Cur), code, <<>>, -1))
  /\ UNCHANGED gameVars

ApiValidateAndCache(code) ==
  /\ mainThread = "idle"
  /\ NextVacId(Cur) <= MaxVac
  /\ NextCallId(Cur) <= MaxCalls
  /\ Assign(ValidateAndCacheF(Cur, NextVacId(Cur), code))
  /\ UNCHANGED gameVars

ApiExecuteDirect(code, hist) ==
  \E r \in {executeDirect(code, hist, functionCache)} :
      /\ mainThread = "idle"
      /\ functionCache' = r.fc
      /\ lastDirect' = [code |-> code, hist |-> hist, before |-> functionCache,
                        after |-> r.fc, end |-> r.end, ret |-> r.ret]
      /\ okSources' = StillCompiled(okSources, r.fc)
      /\ mainThread' = IF r.end = "never" THEN "stalled" ELSE mainThread
      /\ UNCHANGED <<poolVars, validatedCodes, vac, localStorage, players,
                     lastRound, roundsPlayed, sync, lastSave, currentRound, component,
                     lastStrategy>>

(***************************************************************************)
(* executeInWorkerSync (syncWorkerExecutor.ts).  The call starts            *)
(* executeInWorker and then polls `completed` in a loop that never gives   *)
(* up the main thread: while it waits the main thread is "busy", and the   *)
(* tasks that need it (message events, timers, promise callbacks) wait.    *)
(***************************************************************************)
ApiExecuteInWorkerSync(code, hist) ==
  /\ mainThread = "idle"
  /\ sync.st # "waiting"
  /\ NextCallId(Cur) <= MaxCalls
  /\ Assign(ExecuteInWorkerF(Cur, NextCallId(Cur), code, hist, 0))
  /\ mainThread' = "busy"
  /\ sync' = [st |-> "waiting", call |-> NextCallId(Cur), startTime |-> now,
              result |-> "", error |-> ""]
  /\ UNCHANGED <<players, lastRound, roundsPlayed, lastSave, currentRound, component,
                 lastStrategy>>

\* The polling loop up to its exit: `completed` is set by the callbacks of
\* the promise, that is once call sync.call has settled and its callbacks
\* have run; otherwise the loop spins until the deadline has passed.
SyncLoop ==
  /\ mainThread = "busy"
  /\ sync.st = "waiting"
  /\ IF call[sync.call].st = "resolved"
     THEN /\ sync' = [sync EXCEPT !.st = "returned",
                                  !.result = call[sync.call].value]
          /\ now' = now
     ELSE IF call[sync.call].st = "rejected"
     THEN /\ sync' = [sync EXCEPT !.st = "threw",
                                  !.error = call[sync.call].value]
          /\ now' = now
     ELSE /\ sync' = [sync EXCEPT !.st = "threw",
                                  !.error = "Strategy execution timed out"]
          /\ now' = sync.startTime + DefaultTimeoutMs + SyncBufferMs + 1
  /\ mainThread' = "idle"
  /\ UNCHANGED <<workerPool, entry, worker, call, posted, cacheVars, players,
                 lastRound, roundsPlayed, lastSave, currentRound, component, lastStrategy>>

(***************************************************************************)
(* The page (components/game/game.tsx).                                    *)
(***************************************************************************)
\* resetGame(): the round list is the initial round alone, auto-play is off
\* (the caller sets currentRound to 0).
resetGame(c) == [c EXCEPT !.roundStates = <<0>>, !.isPlaying = FALSE]

\* new Custom(...): the stored code or the default, and its validation.
CustomCode(s) ==
  IF s.localStorage = <<>> THEN DEFAULT_STRATEGY_CODE ELSE s.localStorage

Construct(s, kind) ==
  IF kind = "Custom" THEN ValidateAndCacheF(s, NextVacId(s), CustomCode(s))
  ELSE s

\* handleStrategyChange(player, strategyName): createGame builds both players
\* anew.
HandleStrategyChange(player, strategyName) ==
  LET k1 == IF player = 1 THEN strategyName ELSE players[1].kind
      k2 == IF player = 2 THEN strategyName ELSE players[2].kind
      customs == Cardinality({p \in {1, 2} : <<k1, k2>>[p] = "Custom"})
      code(k) == IF k = "Custom" THEN CustomCode(Cur) ELSE <<>>
  IN  /\ mainThread = "idle"
      /\ NextVacId(Cur) + customs - 1 <= MaxVac
      /\ NextCallId(Cur) + customs - 1 <= MaxCalls
      /\ \E s1 \in {Construct(Cur, k1)} :
         \E s2 \in {Construct(s1, k2)} : Assign(s2)
      /\ players' = <<NewPlayer(k1, code(k1)), NewPlayer(k2, code(k2))>>
      /\ roundsPlayed' = 0
      /\ lastRound' = NoRound
      /\ currentRound' = 0
      /\ component' = resetGame(component)
      /\ UNCHANGED <<mainThread, sync, lastSave, lastStrategy>>

\* A setStrategyCode that stores the code before it validates, against which
\* C22 is tested.
setStrategyCodeStoreFirst(s, code) ==
  [threw |-> ~validateCode(code).isValid,
   s |-> IF validateCode(code).isValid
         THEN ValidateAndCacheF([s EXCEPT !.localStorage = code],
                                NextVacId(s), code)
         ELSE [s EXCEPT !.localStorage = code],
   strategyCode |-> code]

\* Custom.setStrategyCode(code): the state after it and whether it threw.
setStrategyCode(s, code) ==
  LET validation == validateCode(code)
  IN  IF ~validation.isValid
      THEN [threw |-> TRUE, s |-> s, strategyCode |-> <<>>]
      ELSE [threw |-> FALSE,
            s |-> ValidateAndCacheF([s EXCEPT !.localStorage = code],
                                    NextVacId(s), code),
            strategyCode |-> code]

\* handleSaveCustomCode(player, code) when players[player] is a Custom.
HandleSaveCustomCode(player, code) ==
  /\ mainThread = "idle"
  /\ players[player].kind = "Custom"
  /\ NextVacId(Cur) <= MaxVac
  /\ NextCallId(Cur) <= MaxCalls
  /\ \E r \in {setStrategyCode(Cur, code)} :
      /\ Assign(r.s)
      /\ players' = IF r.threw THEN players
                    ELSE [players EXCEPT ![player].strategyCode = r.strategyCode]
      /\ lastSave' = [called |-> TRUE, code |-> code, threw |-> r.threw,
                      changed |-> \/ r.s # Cur
                                  \/ players' # players]
      /\ currentRound' = IF r.threw THEN currentRound ELSE 0
      /\ component' = IF r.threw THEN component ELSE resetGame(component)
      /\ UNCHANGED <<mainThread, lastRound, roundsPlayed, sync, lastStrategy>>

\* prevStates.some(state => state.round === newRound)
roundExists(roundStates, newRound) ==
  \E i \in 1..Len(roundStates) : roundStates[i] = newRound

\* The round after currentRound, as playNextRound and the auto-play tick play
\* it, the engine playing at most `limit` rounds.  In game mode a round
\* already in the list is shown again and the engine is not called; in
\* simulation mode the engine is always called and its round appended.
NextRoundOf(limit, userChoices) ==
  LET newRound == currentRound + 1
  IN  IF component.mode = "game" /\ roundExists(component.roundStates, newRound)
      THEN /\ mainThread = "idle"
           /\ currentRound' = newRound
           /\ UNCHANGED <<poolVars, cacheVars, players, mainThread, lastRound,
                          roundsPlayed, sync, lastSave, lastStrategy,
                          component>>
      ELSE \E userChoice \in userChoices,
              r1 \in RandomDraws(players[1].kind),
              r2 \in RandomDraws(players[2].kind) :
             /\ roundsPlayed < limit
             /\ GameRound(newRound, userChoice, r1, r2)
             /\ currentRound' = IF lastRound'.status = "returned"
                                THEN newRound ELSE currentRound
             /\ component' =
                  IF lastRound'.status = "returned"
                  THEN [component EXCEPT
                          !.roundStates = Append(@, newRound)]
                  ELSE component

\* playNextRound(userChoice), in a game of at most `limit` rounds
RoundWithin(limit) ==
  NextRoundOf(limit,
              IF players[1].kind = "SelfPlay" THEN UserChoices ELSE {""})

Round == RoundWithin(MaxRounds)

\* A longer game, played by a Custom strategy against a built-in one.
CustomRound == RoundWithin(MaxCustomRounds)

(***************************************************************************)
(* The engine used without the page: a Game is built from two built-in     *)
(* strategies, Game.round is called with any round number, and a strategy  *)
(* is called with any history.                                             *)
(***************************************************************************)
EngineKinds == {"TitForTat", "Resentful", "AlwaysDefect", "Random"}
RoundNumbers == {1, 2}

RECURSIVE HistoriesUpTo(_)
HistoriesUpTo(n) ==
  IF n = 0 THEN {<<>>}
  ELSE LET shorter == HistoriesUpTo(n - 1)
       IN  shorter \cup {Append(h, m) : h \in shorter, m \in Moves}

\* new Game([new K1("Player 1", 0, []), new K2("Player 2", 0, [])])
CreateGame(k1, k2) ==
  /\ mainThread = "idle"
  /\ players' = <<NewPlayer(k1, <<>>), NewPlayer(k2, <<>>)>>
  /\ roundsPlayed' = 0
  /\ lastRound' = NoRound
  /\ lastStrategy' = NoStrategy
  /\ UNCHANGED <<poolVars, cacheVars, mainThread, sync, lastSave, currentRound, component>>

\* game.round(round_number)
EngineRound(round_number, r1, r2) ==
  /\ roundsPlayed < MaxEngineRounds
  /\ GameRound(round_number, "", r1, r2)
  /\ UNCHANGED <<currentRound, component>>

\* game.players[0].strategy(opponent_history), called outside a round
StrategyCall(opponent_history, r) ==
  \E c \in {Strategy(players[1], opponent_history, functionCache, r)} :
    /\ mainThread = "idle"
    /\ c.end = "return"
    /\ players' = [players EXCEPT ![1] = c.self]
    /\ functionCache' = c.fc
    /\ okSources' = StillCompiled(okSources, c.fc)
    /\ lastStrategy' =
         [st |-> "returned", hist |-> opponent_history, ret |-> c.ret,
          seenBefore |-> /\ lastStrategy.st # "none"
                         /\ \/ lastStrategy.seenBefore
                            \/ \E i \in 1..Len(lastStrategy.hist) :
                                 lastStrategy.hist[i] = DEFECT]
    /\ UNCHANGED <<poolVars, validatedCodes, vac, localStorage, lastDirect,
                   mainThread, lastRound, roundsPlayed, sync, lastSave,
                   currentRound, component>>

(***************************************************************************)
(* Events.                                                                 *)
(***************************************************************************)
Alive(w) == worker[w].st \in {"running", "hung"}

\* The worker thread takes one request and runs it.
WorkerRun(w) ==
  /\ worker[w].st = "running"
  /\ worker[w].inbox # <<>>
  /\ LET resp == WorkerResponse(Head(worker[w].inbox))
     IN  worker' =
           [worker EXCEPT ![w] =
              IF resp.type = "none"
              THEN [@ EXCEPT !.st = "hung", !.inbox = Tail(@)]
              ELSE [@ EXCEPT !.inbox = Tail(@), !.outbox = Append(@, resp)]]
  /\ UNCHANGED <<now, workerPool, entry, call, posted, cacheVars, gameVars>>

\* A message of worker w reaches the main thread: its 'message' listeners run.
DeliverMessage(w) ==
  /\ mainThread = "idle"
  /\ Alive(w)
  /\ worker[w].outbox # <<>>
  /\ Assign(DispatchMessage([Cur EXCEPT !.worker[w].outbox = Tail(@)], w,
                            Head(worker[w].outbox), 1))
  /\ UNCHANGED gameVars

\* The timer of call c fires.
Timeout(c) ==
  /\ mainThread = "idle"
  /\ call[c].timer
  /\ Assign(TimeoutF(Cur, c))
  /\ UNCHANGED gameVars

\* Worker w raises an 'error' event: its 'error' listeners run.
WorkerError(w) ==
  /\ mainThread = "idle"
  /\ Alive(w)
  /\ \E c \in CallIds : call[c].w = w /\ call[c].onMessage
  /\ Assign(DispatchError(Cur, w, 1))
  /\ UNCHANGED gameVars

Tick ==
  /\ now + TickMs <= MaxTicks * TickMs
  /\ now' = now + TickMs
  /\ UNCHANGED <<workerPool, entry, worker, call, posted, cacheVars, gameVars>>

\* The worker answers, or the timer fires first.
Events ==
  \/ \E w \in CallIds : WorkerRun(w)
  \/ \E w \in CallIds : DeliverMessage(w)
  \/ \E c \in CallIds : Timeout(c)

Faults == \E w \in CallIds : WorkerError(w)

NextPool ==
  \/ \E in \in PoolInputs : ApiExecuteInWorker(in.code, in.hist)
  \/ Tick
  \/ Events
  \/ Faults

NextCache ==
  \/ \E code \in CacheSources : ApiValidateAndCache(code)
  \/ \E code \in TestSources : ApiTestCompilation(code)
  \/ \E in \in DirectInputs : ApiExecuteDirect(in.code, in.hist)
  \/ Events
  \/ Faults

NextGame ==
  \/ \E player \in {1, 2} : \E strategyName \in Strategies(player) :
       HandleStrategyChange(player, strategyName)
  \/ \E player \in {1, 2}, code \in SavedSources :
       HandleSaveCustomCode(player, code)
  \/ Round
  \/ Events

\* One caller that awaits each executeInWorker call, every worker answering
\* in time.
NextSeq ==
  \/ \E code \in SeqSources : ApiExecuteAwaited(code)
  \/ \E w \in CallIds : WorkerRun(w)
  \/ \E w \in CallIds : DeliverMessage(w)

\* Games of built-in strategies played by calling Game.round.
NextEngine ==
  \/ \E k1 \in EngineKinds, k2 \in EngineKinds : CreateGame(k1, k2)
  \/ \E round_number \in RoundNumbers :
       \E r1 \in RandomDraws(players[1].kind),
          r2 \in RandomDraws(players[2].kind) :
         EngineRound(round_number, r1, r2)

\* Strategy calls on the first player of a Game, with any history.
NextStrategy ==
  \/ \E k1 \in EngineKinds, k2 \in EngineKinds : CreateGame(k1, k2)
  \/ \E opponent_history \in HistoriesUpTo(MaxHistory) :
       \E r \in RandomDraws(players[1].kind) : StrategyCall(opponent_history, r)

\* executeInWorker called with guest code of every outcome.
NextWorker ==
  \/ \E in \in WorkerInputs : ApiExecuteInWorker(in.code, in.hist)
  \/ Events

\* A caller that fills the pool while time passes; no timer fires.
NextCleanup ==
  \/ ApiExecuteNext
  \/ \E w \in CallIds : WorkerRun(w)
  \/ \E w \in CallIds : DeliverMessage(w)
  \/ Tick

\* The game page with player 1 set to Custom: snippets that fail in a later
\* round are saved and a game of MaxCustomRounds rounds is played.
CustomSources == {SrcThrowNE, SrcBadNE}

NextCustom ==
  \/ HandleStrategyChange(1, "Custom")
  \/ HandleStrategyChange(2, "AlwaysDefect")
  \/ \E code \in CustomSources : HandleSaveCustomCode(1, code)
  \/ CustomRound
  \/ Events

(***************************************************************************)
(* GameComponent in either mode: next-round clicks, auto-play ticks and    *)
(* slider moves between strategy changes.  Every event handler runs on a   *)
(* fresh render, so each is one step.                                      *)
(***************************************************************************)
Modes == {"game", "simulation"}
ComponentKinds(player) ==
  IF player = 1 THEN {"TitForTat", "AlwaysDefect", "SelfPlay"}
  ELSE {"TitForTat", "AlwaysDefect"}

\* The Next Round button, or the Cooperate and Defect buttons of SelfPlay.
PlayNextRound ==
  /\ ~component.isPlaying
  /\ currentRound < maxRounds
  /\ NextRoundOf(MaxComponentRounds,
                 IF component.mode = "game" /\ players[1].kind = "SelfPlay"
                 THEN Moves ELSE {""})

\* One tick of the interval of the auto-play effect.
AutoPlayTick ==
  /\ component.isPlaying
  /\ IF currentRound >= maxRounds
     THEN /\ component' = [component EXCEPT !.isPlaying = FALSE]
          /\ UNCHANGED <<poolVars, cacheVars, players, mainThread, lastRound,
                         roundsPlayed, sync, lastSave, currentRound,
                         lastStrategy>>
     ELSE NextRoundOf(MaxComponentRounds, {""})

\* handleSliderChange(roundNumber): the slider offers 1..maxRounds once a
\* round is recorded; a number without a recorded round changes nothing.
HandleSliderChange(roundNumber) ==
  /\ mainThread = "idle"
  /\ Len(component.roundStates) > 1
  /\ currentRound' = IF roundExists(component.roundStates, roundNumber)
                     THEN roundNumber ELSE currentRound
  /\ UNCHANGED <<poolVars, cacheVars, players, mainThread, lastRound,
                 roundsPlayed, sync, lastSave, lastStrategy, component>>

\* togglePlayPause()
TogglePlayPause ==
  /\ mainThread = "idle"
  /\ component' = [component EXCEPT !.isPlaying = ~@]
  /\ UNCHANGED <<poolVars, cacheVars, players, mainThread, lastRound,
                 roundsPlayed, sync, lastSave, currentRound, lastStrategy>>

NextComponent ==
  \/ \E player \in {1, 2} : \E k \in ComponentKinds(player) :
       HandleStrategyChange(player, k)
  \/ PlayNextRound
  \/ AutoPlayTick
  \/ \E roundNumber \in 1..maxRounds : HandleSliderChange(roundNumber)
  \/ TogglePlayPause

\* executeInWorkerSync called by a synchronous caller.
NextSync ==
  \/ \E in \in PoolInputs : ApiExecuteInWorkerSync(in.code, in.hist)
  \/ SyncLoop
  \/ Events

SpecPool == Init /\ [][NextPool]_vars
SpecSync == Init /\ [][NextSync]_vars
SpecCustom == InitPage /\ [][NextCustom]_vars
SpecCleanup == Init /\ [][NextCleanup]_vars
SpecWorker == Init /\ [][NextWorker]_vars
SpecEngine == Init /\ [][NextEngine]_vars
SpecStrategy == Init /\ [][NextStrategy]_vars
SpecSeq == Init /\ [][NextSeq]_vars
SpecCache == Init /\ [][NextCache]_vars
SpecGame == InitPage /\ [][NextGame]_vars
SpecComponent == InitIn({<<>>}, Modes) /\ [][NextComponent]_vars


(***************************************************************************)
(* Properties.                                                             *)
(***************************************************************************)
Pending(c) == call[c].st = "pending"
Ended(c) == call[c].st \in {"resolved", "rejected"}
Started(v) == vac[v].st # "free"

\* The key under which validateAndCacheFunction files a source.
KeyOf(code) == createCacheKey(Trim(code), COOPERATE, DEFECT)

\* The vias of a Custom.strategy call that fell back after a failure.
FailureVias == {"validation", "empty", "uncached", "guestThrow", "invalidReturn"}

\* C1: the game never stalls because of guest code: when a player's Custom
\* snippet has passed validateCode and the one-time worker test (its key is
\* in validatedCodes), every Game.round call returns.
C1_RoundsReturn ==
  \A p \in {1, 2} :
    (players[p].kind = "Custom"
       /\ validateCode(players[p].strategyCode).isValid
       /\ KeyOf(players[p].strategyCode) \in validatedCodes)
    => lastRound.status # "stalled"

\* C2: Custom.strategy never throws, and what it returns is Cooperate or
\* Defect: after a validation failure, a compilation that failed or has not
\* finished, a guest exception or an invalid guest return value it returns
\* Cooperate, so no guest-code error reaches Game.round.
C2_CustomReturnsMove ==
  /\ lastRound.status # "threw"
  /\ \A p \in 1..Len(lastRound.choice) :
       /\ lastRound.choice[p] \in Moves
       /\ lastRound.via[p] \in FailureVias => lastRound.choice[p] = COOPERATE

C2_Witness ==
  /\ lastRound.status = "returned"
  /\ lastRound.via[1] = "guestThrow"
  /\ lastRound.choice[1] = COOPERATE

\* C3: no handle is left stuck busy: every handle in the pool that is marked
\* busy is the handle of an executeInWorker call that has not ended yet, so
\* once a call has ended (by result, error response, timeout or worker
\* error) no pooled handle is busy on its behalf, and with no call under way
\* the count of busy handles is zero.
C3_NoHandleStuckBusy ==
  \A i \in 1..Len(workerPool) :
    entry[workerPool[i].w].isBusy =>
      \E c \in CallIds : Pending(c) /\ call[c].w = workerPool[i].w

C3_Witness ==
  /\ \E c \in CallIds : call[c].outcome = "timeout"
  /\ \E c \in CallIds :
       /\ call[c].outcome = "result"
       /\ call[c].w \in PoolWorkers(workerPool)
       /\ ~entry[call[c].w].isBusy

\* C4: after a round, each player's score is its score before the round plus
\* that player's entry of the payoff pair of the two moves returned in the
\* round result, and it is not less than before.
C4_ScoreIsPayoff ==
  lastRound.status = "returned" =>
    \A p \in {1, 2} :
      /\ players[p].score =
           lastRound.before[p].score + SCORING[lastRound.choice][p]
      /\ players[p].score >= lastRound.before[p].score

C4_Witness ==
  /\ lastRound.status = "returned"
  /\ lastRound.choice = <<DEFECT, COOPERATE>>
  /\ lastRound.before[1].score > 0
  /\ players[1].score = lastRound.before[1].score + 5

\* C5: after a round, each player's history is its history before the round
\* with the move that player chose appended, and the two histories have the
\* same length.
C5_HistoriesGrowByOne ==
  lastRound.status = "returned" =>
    /\ \A p \in {1, 2} :
         players[p].history =
           Append(lastRound.before[p].history, lastRound.choice[p])
    /\ Len(players[1].history) = Len(players[2].history)

\* C6: in a round each strategy is given the opponent's history as it was
\* before the round: player 1's move is computed from player 2's history and
\* player 2's from player 1's, neither containing a move of this round.
C6_GivenOpponentHistory ==
  \A p \in 1..Len(lastRound.given) :
    lastRound.given[p] = lastRound.before[3 - p].history

C6_Witness ==
  /\ lastRound.status = "returned"
  /\ lastRound.given[1] # <<>>
  /\ lastRound.given[1] # lastRound.given[2]
  /\ players[2].history # players[1].history

\* C7: a snippet that validateCode rejects never reaches a worker: no
\* 'execute' message is posted for a source that fails validation.
C7_RejectedNeverPosted ==
  \A m \in posted : validateCode(m.code).isValid

C10_OneCompilationPerKey ==
  \A v1, v2 \in VacIds :
    (v1 # v2 /\ vac[v1].st = "awaiting" /\ vac[v2].st = "awaiting")
    => vac[v1].key # vac[v2].key


\* C11: when executeInWorker is called for a source whose handle is in the
\* pool and idle (a previous call on it has ended, and the handle is not
\* older than MAX_WORKER_AGE), the call is given that handle's worker and no
\* new worker is created.
C11_IdleHandleReused ==
  [][\A c \in CallIds :
       (call[c].st = "free" /\ call'[c].st = "pending") =>
         LET w == PoolGet(workerPool, call'[c].codeKey)
         IN  (/\ w # 0
              /\ ~entry[w].isBusy
              /\ \E d \in CallIds : Ended(d) /\ call[d].w = w
              /\ now - entry[w].lastUsed <= MAX_WORKER_AGE)
             => (call'[c].w = w /\ ~call'[c].isNew)]_vars

\* C12: a handle stays busy while its call is in flight: the handle of every
\* pending call is marked busy (so no event of another, already-ended call
\* has cleared the flag), and no call that started later was given the
\* worker of a call that is still pending.
C12_BusyWhileInFlight ==
  \A c \in CallIds :
    Pending(c) =>
      /\ entry[call[c].w].isBusy
      /\ \A d \in CallIds : d > c /\ call[d].st # "free" => call[d].w # call[c].w

C12_Witness ==
  \E c, d \in CallIds :
    /\ d < c
    /\ Ended(d)
    /\ call[d].codeKey = call[c].codeKey
    /\ Pending(c)
    /\ entry[call[c].w].isBusy
    /\ \E p \in posted : p.messageId = c

\* C13: when the timer of a call fires, the call is rejected with the timeout
\* error, and the handle is treated by origin: a worker created for the call
\* is terminated and is no longer in the pool; a reused worker is left
\* running, stays in the pool if it was there, and its handle is marked idle.
C13_TimeoutByOrigin ==
  [][\A c \in CallIds :
       (Pending(c) /\ call[c].timer /\ call'[c].outcome = "timeout") =>
         LET w == call[c].w
         IN  /\ call'[c].st = "rejected"
             /\ ~call'[c].timer
             /\ IF call[c].isNew
                THEN /\ worker'[w].st = "terminated"
                     /\ w \notin PoolWorkers(workerPool')
                ELSE /\ worker'[w] = worker[w]
                     /\ workerPool' = workerPool
                     /\ ~entry'[w].isBusy]_vars

C13_Witness ==
  \E c \in CallIds :
    /\ call[c].outcome = "timeout"
    /\ call[c].st = "rejected"
    /\ call[c].isNew
    /\ worker[call[c].w].st = "terminated"
    /\ call[c].w \notin PoolWorkers(workerPool)
    /\ \E p \in posted : p.messageId = c

\* C14: a worker-level error evicts: a call that ended by its worker's error
\* event is rejected, its worker is terminated and is not in the pool, and no
\* other call was ever given that worker.
C14_WorkerErrorEvicts ==
  \A c \in CallIds :
    call[c].outcome = "workerError" =>
      /\ call[c].st = "rejected"
      /\ worker[call[c].w].st = "terminated"
      /\ call[c].w \notin PoolWorkers(workerPool)
      /\ \A d \in CallIds \ {c} : call[d].st # "free" => call[d].w # call[c].w
      /\ \A p \in posted : p.w = call[c].w => p.messageId = c

C14_Witness ==
  \E c, d \in CallIds :
    /\ call[c].outcome = "workerError"
    /\ worker[call[c].w].st = "terminated"
    /\ d > c
    /\ call[d].codeKey = call[c].codeKey
    /\ call[d].st # "free"
    /\ call[d].w # call[c].w

\* C15: the pool size is capped: in every reachable state workerPool holds
\* at most MAX_POOL_SIZE handles.
C15_PoolSizeCapped == Len(workerPool) <= MAX_POOL_SIZE

\* C16: one worker is pinned to one snippet: all 'execute' requests ever
\* posted to one worker carry the same trimmed source, also when two
\* different sources have the same pool key.
C16_WorkerPinned ==
  \A p, q \in posted : p.w = q.w => Trim(p.code) = Trim(q.code)

C16_Witness ==
  \E p, q \in posted :
    /\ Trim(p.code) # Trim(q.code)
    /\ hashCode(Trim(p.code)) = hashCode(Trim(q.code))
    /\ p.w # q.w

\* C17: a compiled function is in functionCache only under a key for which a
\* validateAndCacheFunction call resolved whose source passed validateCode
\* and whose worker round-trip, on the empty history, came back with a valid
\* move; a call that was rejected (by the validator, by a failed or timed-out
\* round-trip) adds no entry.
C17_CachedOnlyAfterRoundTrip ==
  \A k \in DOMAIN functionCache :
    \E v \in VacIds :
      /\ vac[v].key = k
      /\ vac[v].st = "resolved"
      /\ validateCode(vac[v].code).isValid
      /\ functionCache[k] = Trim(vac[v].code)
      /\ vac[v].call \in CallIds
      /\ call[vac[v].call].outcome = "result"
      /\ call[vac[v].call].value \in Moves
      /\ call[vac[v].call].hist = <<>>

C17_Witness ==
  \E u, v \in VacIds :
    /\ vac[v].st = "rejected"
    /\ vac[v].call \in CallIds
    /\ call[vac[v].call].outcome = "timeout"
    /\ vac[v].key \notin DOMAIN functionCache
    /\ vac[u].st = "resolved"
    /\ vac[u].key \in DOMAIN functionCache

\* C18: when executeDirect runs a cached function and the function throws or
\* returns a value other than the two labels, the entry of that key is
\* removed from functionCache and the call throws; when the function
\* returns a valid move, the call returns that move and functionCache is as
\* it was.
C18_DirectEvictsOnFailure ==
  (lastDirect.end # "none" /\ KeyOf(lastDirect.code) \in DOMAIN lastDirect.before)
  => LET key == KeyOf(lastDirect.code)
         out == RunGuest(lastDirect.before[key], lastDirect.hist)
     IN  /\ (out.kind = "throw" \/ (out.kind = "value" /\ out.value \notin Moves))
              => /\ lastDirect.end = "throw"
                 /\ key \notin DOMAIN lastDirect.after
                 /\ \A k \in DOMAIN lastDirect.before \ {key} :
                      /\ k \in DOMAIN lastDirect.after
                      /\ lastDirect.after[k] = lastDirect.before[k]
         /\ (out.kind = "value" /\ out.value \in Moves)
              => /\ lastDirect.end = "return"
                 /\ lastDirect.ret = out.value
                 /\ lastDirect.after = lastDirect.before

C18_Witness ==
  /\ lastDirect.end = "throw"
  /\ KeyOf(lastDirect.code) \in DOMAIN lastDirect.before
  /\ KeyOf(lastDirect.code) \notin DOMAIN lastDirect.after
  /\ RunGuest(lastDirect.before[KeyOf(lastDirect.code)], lastDirect.hist).kind
       = "value"
  /\ DOMAIN lastDirect.after # {}

InvokedVias == {"cached", "guestThrow", "invalidReturn", "loop"}

C21_SyncReturnsResult ==
  (sync.st = "threw" /\ sync.error = "Strategy execution timed out")
  => WorkerResponse([code |-> call[sync.call].code, hist |-> call[sync.call].hist,
                     messageId |-> sync.call]).type # "result"

\* C22: a validation error is raised at submission: setStrategyCode throws
\* exactly for a source that validateCode rejects, and a call that threw
\* changed nothing: not the strategy's source, not the stored preference,
\* not the caches, and it started no validation and no worker call.
C22_RejectedSaveChangesNothing ==
  lastSave.called =>
    /\ lastSave.threw <=> ~validateCode(lastSave.code).isValid
    /\ lastSave.threw => ~lastSave.changed

C22_Witness ==
  /\ lastSave.called
  /\ lastSave.threw
  /\ ~lastSave.changed
  /\ \E p \in {1, 2} :
       /\ players[p].kind = "Custom"
       /\ players[p].strategyCode # lastSave.code
  /\ localStorage # lastSave.code
  /\ functionCache # <<>>

\* C23: scores and histories are changed only by Game.round after both
\* moves are computed: when the strategy calls of a round have ended, every
\* player's score and history are still what they were before the round.
C23_StrategyCallsChangeNoStanding ==
  lastRound.status # "none" => lastRound.computed = lastRound.before

\* C24: the engine does not absorb a repeated round number: a Game.round
\* call with the round number of the call before it plays a full round: two
\* strategy calls, each given the opponent's history with the earlier
\* round's move in it, the payoff added to each score and one move appended
\* to each history.
C24_RepeatedRoundIsPlayed ==
  (lastRound.status = "returned" /\ lastRound.repeated) =>
    /\ Len(lastRound.choice) = 2
    /\ Len(lastRound.given) = 2
    /\ \A p \in {1, 2} :
         /\ lastRound.given[p] = lastRound.before[OpponentOf(p)].history
         /\ lastRound.before[p].history # <<>>
         /\ players[p].score =
              lastRound.before[p].score + SCORING[lastRound.choice][p]
         /\ players[p].history =
              Append(lastRound.before[p].history, lastRound.choice[p])
         /\ Len(players[p].history) = roundsPlayed

C24_Witness ==
  /\ lastRound.status = "returned"
  /\ lastRound.repeated
  /\ lastRound.round_number = 1
  /\ roundsPlayed = 2
  /\ players[1].score = 6
  /\ players[1].history = <<COOPERATE, COOPERATE>>

\* C25: Resentful is absorbing on defection: once a history with a Defect in
\* it was passed to a Resentful instance, every later strategy call on that
\* instance returns Defect, whatever history it is given.
C25_ResentfulAbsorbing ==
  (players[1].kind = "Resentful" /\ lastStrategy.st = "returned"
     /\ lastStrategy.seenBefore)
  => lastStrategy.ret = DEFECT

\* C26: TitForTat returns Cooperate on an empty opponent history and
\* otherwise exactly the last move of the opponent history.
C26_TitForTatRepeatsLastMove ==
  (players[1].kind = "TitForTat" /\ lastStrategy.st = "returned") =>
    /\ lastStrategy.hist = <<>> => lastStrategy.ret = COOPERATE
    /\ lastStrategy.hist # <<>> =>
         lastStrategy.ret = lastStrategy.hist[Len(lastStrategy.hist)]

C26_Witness ==
  /\ players[1].kind = "TitForTat"
  /\ lastStrategy.st = "returned"
  /\ lastStrategy.hist = <<DEFECT, COOPERATE>>
  /\ lastStrategy.ret = COOPERATE
  /\ lastStrategy.seenBefore

\* C27: two TitForTat players playing each other produce (C, C) in every
\* round: after n rounds both scores are 3n (15 and 15 after five rounds)
\* and neither history holds a Defect.
C27_TitForTatPairCooperates ==
  (players[1].kind = "TitForTat" /\ players[2].kind = "TitForTat") =>
    /\ lastRound.status \in {"none", "returned"}
    /\ lastRound.status = "returned" =>
         lastRound.choice = <<COOPERATE, COOPERATE>>
    /\ \A p \in {1, 2} :
         /\ players[p].score = 3 * roundsPlayed
         /\ Len(players[p].history) = roundsPlayed
         /\ \A i \in 1..Len(players[p].history) :
              players[p].history[i] # DEFECT

C27_Witness ==
  /\ players[1].kind = "TitForTat"
  /\ players[2].kind = "TitForTat"
  /\ roundsPlayed = 5
  /\ players[1].score = 15
  /\ players[2].score = 15
  /\ players[1].history = <<COOPERATE, COOPERATE, COOPERATE, COOPERATE, COOPERATE>>

\* C28: an 'execute' request is posted to a newly created worker only when
\* that worker's 'ready' message is delivered, and one request is posted per
\* executeInWorker call; a call whose 'ready' never arrived has posted no
\* request and, unless the worker raised an error event, ends by timeout.
C28_PostedOnReadyOnce ==
  /\ [](\A c \in CallIds :
          call[c].isNew =>
            /\ call[c].posts = (IF call[c].onReady THEN 0 ELSE 1)
            /\ (Ended(c) /\ call[c].onReady /\ call[c].outcome # "workerError")
               => call[c].outcome = "timeout")
  /\ [][\A c \in CallIds :
          (call'[c].isNew /\ call'[c].posts # call[c].posts) =>
            /\ Pending(c)
            /\ call[c].posts = 0
            /\ worker[call[c].w].outbox # <<>>
            /\ Head(worker[call[c].w].outbox).type = "ready"]_vars

C28_Witness ==
  /\ \E c \in CallIds :
       /\ call[c].isNew
       /\ call[c].outcome = "result"
       /\ call[c].posts = 1
       /\ Cardinality({m \in posted : m.messageId = c}) = 1
  /\ \E c \in CallIds :
       /\ call[c].isNew
       /\ call[c].outcome = "timeout"
       /\ call[c].onReady
       /\ call[c].posts = 0
       /\ \A m \in posted : m.messageId # c

\* The messages a 'message' listener of call c can be handed that do not
\* carry the id of c: the id of another call, or none (0).
OtherIdMessages(c) ==
  {Message(type, result, error, id) :
     type \in {"result", "error", "ready"}, result \in {"", COOPERATE},
     error \in {"", "boom"}, id \in (0..MaxPoolCalls) \ {c}}

\* C29: a pending call is settled only by a response carrying its own
\* request id: handleMessage of the call leaves the call's outcome and every
\* handle's busy and ready state as they are on a message with any other
\* id, and a call ends by a result or an error response only in a step that
\* delivers a message with the call's id.
C29_OnlyOwnIdSettles ==
  /\ [](\A c \in CallIds :
          (Pending(c) /\ call[c].onMessage) =>
            \A msg \in OtherIdMessages(c) :
              LET s == HandleMessageF(Cur, c, msg)
              IN  /\ s.call[c] = call[c]
                  /\ s.entry = entry)
  /\ [][\A c \in CallIds :
          (Pending(c) /\ call'[c].outcome \in {"result", "error"}) =>
            /\ worker[call[c].w].outbox # <<>>
            /\ Head(worker[call[c].w].outbox).messageId = c]_vars

C29_Witness ==
  \E c \in CallIds :
    /\ Pending(c)
    /\ call[c].onMessage
    /\ ~call[c].onReady
    /\ call[c].posts = 1
    /\ worker[call[c].w].outbox # <<>>
    /\ Head(worker[call[c].w].outbox).messageId = c
    /\ entry[call[c].w].isBusy
    /\ ~entry[call[c].w].isReady

\* The guest code of a request terminates: it is not run at all (no code, or
\* code that does not compile), or its run returns or throws.
GuestTerminates(req) ==
  \/ Trim(req.code) = <<>>
  \/ ~Compiles(Trim(req.code))
  \/ RunGuest(Trim(req.code), req.hist).kind # "loop"

\* C30: for every 'execute' request whose guest code terminates the worker
\* posts exactly one response, which carries the request's messageId and is
\* either 'result' or 'error': the step in which a worker handles such a
\* request adds one message to what the worker has posted.
C30_OneResponsePerRequest ==
  [][\A w \in CallIds :
       (worker[w].inbox # <<>> /\ worker'[w].inbox = Tail(worker[w].inbox)
          /\ worker'[w].st # "terminated"
          /\ GuestTerminates(Head(worker[w].inbox)))
       => /\ Len(worker'[w].outbox) = Len(worker[w].outbox) + 1
          /\ SubSeq(worker'[w].outbox, 1, Len(worker[w].outbox))
               = worker[w].outbox
          /\ LET resp == worker'[w].outbox[Len(worker'[w].outbox)]
             IN  /\ resp.messageId = Head(worker[w].inbox).messageId
                 /\ resp.type \in {"result", "error"}
                 /\ resp.type = "result" =>
                      resp.result \in Moves /\ resp.error = ""
                 /\ resp.type = "error" => resp.result = ""]_vars

C30_Witness ==
  /\ \E w \in CallIds :
       /\ worker[w].st = "running"
       /\ worker[w].inbox = <<>>
       /\ call[w].posts = 1
       /\ worker[w].outbox = <<Message("result", COOPERATE, "", w)>>
  /\ \E w \in CallIds :
       /\ worker[w].st = "running"
       /\ worker[w].inbox = <<>>
       /\ call[w].posts = 1
       /\ Len(worker[w].outbox) = 1
       /\ worker[w].outbox[1].type = "error"
       /\ worker[w].outbox[1].messageId = w

\* The outcome of the guest code of call c.
GuestOutcome(c) == RunGuest(Trim(call[c].code), call[c].hist)

\* The responses a worker has posted and the main thread has not taken yet.
Responses ==
  {m \in UNION {Range(worker[w].outbox) : w \in CallIds} : m.messageId # 0}

\* C31: a 'result' response always carries the COOPERATE or the DEFECT label,
\* the value the guest code returned; any other guest return value and any
\* exception thrown by guest code give an 'error' response instead.
C31_ResultIsALabel ==
  \A m \in Responses :
    /\ m.type \in {"result", "error"}
    /\ m.type = "result" =>
         /\ m.result \in Moves
         /\ GuestOutcome(m.messageId).kind = "value"
         /\ GuestOutcome(m.messageId).value = m.result
    /\ (\/ GuestOutcome(m.messageId).kind = "throw"
        \/ /\ GuestOutcome(m.messageId).kind = "value"
           /\ GuestOutcome(m.messageId).value \notin Moves)
       => m.type = "error" /\ m.result = ""

C31_Witness ==
  /\ \E m \in Responses : m.type = "result" /\ m.result = DEFECT
  /\ \E m \in Responses :
       /\ m.type = "error"
       /\ GuestOutcome(m.messageId).kind = "value"
       /\ GuestOutcome(m.messageId).value = "42"

\* C32: cleanupWorkerPool evicts only idle handles: every handle idle for
\* more than MAX_WORKER_AGE, then, when the pool is still over the cap, idle
\* handles in increasing lastUsed order; it never terminates or removes a
\* handle that is marked busy.
C32_CleanupEvictsOnlyIdle ==
  LET cl == cleanupWorkerPool(workerPool, entry, now)
      before == PoolWorkers(workerPool)
      kept == PoolWorkers(cl.pool)
      removed == before \ kept
      Idle(w) == ~entry[w].isBusy
      expired == {w \in before :
                    Idle(w) /\ now - entry[w].lastUsed > MAX_WORKER_AGE}
      overCap == Cardinality(before \ expired) - MAX_POOL_SIZE
  IN  /\ kept \subseteq before
      /\ cl.removed = removed
      /\ \A w \in removed : Idle(w)
      /\ expired \subseteq removed
      /\ \A w \in removed \ expired :
           \A v \in kept : Idle(v) => entry[w].lastUsed <= entry[v].lastUsed
      /\ Cardinality(removed \ expired) =
           (IF overCap <= 0 THEN 0
            ELSE IF overCap <= Cardinality({w \in before \ expired : Idle(w)})
            THEN overCap
            ELSE Cardinality({w \in before \ expired : Idle(w)}))

\* A cleanup under the cap has acted: the pool was over the cap with a busy
\* handle as its oldest, and the oldest idle handle was terminated instead.
C32_Witness ==
  /\ Len(workerPool) = MAX_POOL_SIZE + 1
  /\ \E w \in CallIds :
       /\ call[w].outcome = "result"
       /\ worker[w].st = "terminated"
       /\ w \notin PoolWorkers(workerPool)
       /\ now - entry[w].lastUsed <= MAX_WORKER_AGE
       /\ \E b \in PoolWorkers(workerPool) :
            /\ b < w
            /\ entry[b].isBusy
            /\ entry[b].lastUsed < entry[w].lastUsed

\* C33: every response whose id matches the pending request settles the call
\* at once: in the step that delivers it the call ends and the busy flag of
\* its handle is cleared, whatever the error message is.
C33_MatchingResponseSettles ==
  [][\A c \in CallIds :
       (/\ Pending(c)
        /\ call[c].onMessage
        /\ worker[call[c].w].outbox # <<>>
        /\ Head(worker[call[c].w].outbox).messageId = c
        /\ worker'[call[c].w].st # "terminated"
        /\ worker'[call[c].w].outbox = Tail(worker[call[c].w].outbox))
       => /\ Ended(c)'
          /\ ~entry'[call[c].w].isBusy]_vars

\* C34: no worker is orphaned: each worker that was created and not yet
\* terminated is held by a handle in the pool.
C34_NoOrphanWorker ==
  \A w \in CallIds : Alive(w) => w \in PoolWorkers(workerPool)

\* C35: a call's timeout or worker-error handler evicts only its own handle:
\* the step in which a call ends by timeout or by a worker error leaves in
\* the pool the handle of every other call that is still in flight.
C35_EvictsOnlyOwnHandle ==
  [][\A c \in CallIds :
       (Pending(c) /\ call'[c].outcome \in {"timeout", "workerError"}) =>
         \A d \in CallIds \ {c} :
           (/\ Pending(d)
            /\ Pending(d)'
            /\ call[d].w # call[c].w
            /\ call[d].w \in PoolWorkers(workerPool))
           => call[d].w \in PoolWorkers(workerPool')]_vars

C37_PayoffLookupDefined ==
  /\ lastRound.status \in {"none", "returned", "stalled"}
  /\ \A p \in 1..Len(lastRound.choice) : lastRound.choice[p] \in Moves
  /\ Len(lastRound.choice) = 2 =>
       /\ lastRound.choice \in DOMAIN SCORING
       /\ lastRound.status = "returned"
       /\ lastRound.scores = SCORING[lastRound.choice]
  /\ \A p \in {1, 2} :
       \A i \in 1..Len(players[p].history) : players[p].history[i] \in Moves

C37_Witness ==
  /\ players[1].kind = "SelfPlay"
  /\ players[2].kind = "Joss"
  /\ roundsPlayed = 2
  /\ lastRound.status = "returned"
  /\ lastRound.before[1].history = <<DEFECT>>
  /\ lastRound.choice = <<COOPERATE, DEFECT>>
  /\ lastRound.scores = <<1, 5>>

\* C38: whenever the UI resets the recorded rounds to the initial round-0
\* state (a strategy change or a saved custom code), the engine it plays next
\* is idle too: the round counter is 0 and both players have score 0 and an
\* empty history.
C38_ResetLeavesEngineIdle ==
  [][(component.roundStates # <<0>> /\ component'.roundStates = <<0>>) =>
       /\ currentRound' = 0
       /\ \A p \in {1, 2} :
            players'[p].score = 0 /\ players'[p].history = <<>>]_vars

\* C39: in both modes, after any next-round clicks, auto-play ticks and
\* slider moves, no two recorded rounds have the same round number, the entry
\* at index i is round i, and the engine has played as many rounds as there
\* are entries after round 0.
C39_RoundListMatchesEngine ==
  LET rs == component.roundStates
  IN  /\ \A i, j \in 1..Len(rs) : i # j => rs[i] # rs[j]
      /\ \A i \in 1..Len(rs) : rs[i] = i - 1
      /\ \A p \in {1, 2} : Len(players[p].history) = Len(rs) - 1

=============================================================================
